---- MODULE Spec2Model ----
(***************************************************************************)
(* Pacing / tension control loop of the narrative transformer.             *)
(*                                                                         *)
(*   src/tension.py      TensionAnalyzer, PacingController                 *)
(*   src/transformer.py  NarrativeTransformer.transform (the beat loop)    *)
(*   src/config.py       SAVE_THE_CAT_BEATS                                *)
(*                                                                         *)
(* Tension values are two-decimal floats in the source (calculate_nti      *)
(* returns round(nti, 2), the target table is written in hundredths); the  *)
(* model holds them as integers counting hundredths, so 0.35 is 35.        *)
(* On the value domain used here (NTIValues, OffTarget and the target      *)
(* table) the comparisons the source evaluates in IEEE-754 doubles         *)
(* (np.mean(..) < target - 0.3, np.mean(..) > target + 0.3,                *)
(* np.std(..) < 0.1) give the same answer as exact arithmetic, including   *)
(* the cases of exact equality with a threshold.                           *)
(***************************************************************************)
EXTENDS Integers, Sequences, FiniteSets, TLC

VARIABLES
    num_beats,        \* PacingController.num_beats
    target_curve,     \* PacingController.target_curve (index i of the source is i + 1 here)
    tension_history,  \* PacingController.tension_history
    op,               \* the operation performed last: "init", "hint" or "plot"
    beat_index,       \* argument beat_index of the last get_adjustment_hint call
    actual_nti,       \* argument actual_nti of the last get_adjustment_hint call
    hint,             \* value returned by the last get_adjustment_hint call
    low_streak,       \* number of latest consecutive calls fed an actual below their own target - 0.3
    pc,               \* transform: "idle", "hint", "generate", "assemble", "done", "raised"
    total_beats,      \* transform: the argument num_beats
    beat_idx,         \* transform: the loop variable beat_idx
    run_history,      \* transform: the local list tension_history
    scenes,           \* transform: the local list scenes (each scene by its tension_score)
    hint_calls,       \* transform: number of get_adjustment_hint calls made by the current run
    earlier_run,      \* transform: an earlier call of transform on this instance has ended
    lengths,          \* transform: the target_length passed to generate_scene for each beat so far
    step,             \* transform: the step (1 to 5) the latest call is in or has ended in (0: no call yet)
    text,             \* calculate_nti: the argument text, a sequence of tokens
    sentiment,        \* calculate_nti: the compound score VADER gives the text, in ten-thousandths
    nti,              \* calculate_nti: the value returned, in hundredths
    scored,           \* calculate_nti has returned
    max_retries,      \* retry_with_backoff: the decorator's argument max_retries
    rpc,              \* wrapper: "idle", "try", "sleep", "returned" or "raised"
    attempt,          \* wrapper: the loop variable attempt
    outcomes,         \* wrapper: what each invocation of func did in this call, in order
    delays,           \* wrapper: the argument of each time.sleep of this call, in order
    last_exception,   \* wrapper: the local last_exception
    result,           \* wrapper: the value returned or the exception raised by this call
    runs,             \* interleaved transform calls: the position and locals of each call
    pacer_owner,      \* interleaved transform calls: the call that assigned self.pacer last (0: none)
    history_src,      \* interleaved transform calls: the call that produced each entry of tension_history
    replaced,         \* interleaved transform calls: the controller each call built, once self.pacer names another
    characters,       \* transform: state.characters, name -> status and location
    timeline,         \* transform: state.timeline
    current_beat,     \* transform: state.current_beat
    is_valid,         \* transform: the local is_valid of the latest validate_scene call
    errors,           \* transform: the local errors of the latest validate_scene call
    bad_key           \* transform: how many str keys of state.characters come before a key that is no str (NoBadKey: every key is a str)

pacer == <<num_beats, target_curve, tension_history>>
call == <<op, beat_index, actual_nti, hint, low_streak>>
run == <<pc, total_beats, beat_idx, run_history, scenes, hint_calls, earlier_run, lengths, step>>
scorer == <<text, sentiment, nti, scored>>
retry == <<max_retries, rpc, attempt, outcomes, delays, last_exception, result>>
conc == <<runs, pacer_owner, history_src, replaced>>
story == <<characters, timeline, current_beat, is_valid, errors, bad_key>>
vars == <<pacer, call, run, scorer, retry, conc, story>>

(***************************************************************************)
(* Bounds of the model.                                                    *)
(***************************************************************************)
MaxBeats == 20
MaxHistory == 4
MaxRunBeats == 5
MaxTextLen == 4
MaxRetries == 4
MaxConcBeats == 3
MaxStoryBeats == 2

\* Tension values (hundredths) fed as actual_nti.
NTIValues == {20, 50, 55}

\* The tension value a scene gets when it does not track the target curve.
OffTarget == 55

\* The default of num_beats in PacingController.__init__.
DefaultNumBeats == 15

\* Python's None for the optional argument actual_nti (tension values are >= 0).
None == -1

\* Two calls of transform on one NarrativeTransformer instance, and the
\* position and locals of a call that has not started.
Runs == {1, 2}
IdleRun == [pc |-> "idle", total |-> 0, idx |-> 0, hist |-> <<>>, used |-> 0]

\* The entry of a call whose controller self.pacer still names, or that has
\* built none.
NoController == [num_beats |-> 0, target_curve |-> <<>>, tension_history |-> <<>>]

\* The wrapper's last_exception = None, and a call that has not ended yet.
NoException == "None"
NoResult == "pending"

(***************************************************************************)
(* The story state of a transform run (src/models.py, StoryState) and the  *)
(* two methods of SceneGenerator that read and change it.  Of a scene the  *)
(* model keeps what these methods consult: the names in                    *)
(* characters_involved, the entries of state_updates["deaths"] (each by    *)
(* the set of character names it contains), whether state_updates has the  *)
(* key "location_changes", and whether the text is empty (or blank), has   *)
(* fewer than 50 words, or has 50 words or more.                           *)
(***************************************************************************)

\* The names of state.characters, in the order of the dict, and a name that
\* is not a key of it.
CharacterOrder == <<"a", "b">>
Characters == { CharacterOrder[k] : k \in 1..Len(CharacterOrder) }
UnknownName == "x"
Names == Characters \cup {UnknownName}

\* The keys of state.characters are the target names of the mapping reply
\* (mapper.py:226), which JSON can give as a number: such a key is no str,
\* no scene names it, and char_name.lower() raises on it.  It stands at any
\* place of the dict, after 0 to Len(CharacterOrder) of the str keys.
NoBadKey == -1
BadKeys == {NoBadKey} \cup (0..Len(CharacterOrder))

\* scene.location, and the location from_analysis gives every character.
SceneLocation == "Unknown"
NoLocation == "unknown"

\* state_updates without "deaths", or with one entry that contains the
\* names of one or more characters.
DeathLists == {<<>>} \cup { <<d>> : d \in (SUBSET Characters) \ {{}} }

SceneOutputs ==
    [involved : SUBSET Names, deaths : DeathLists, moves : BOOLEAN,
     text : {"empty", "short", "full"}]

\* The tension scores of the scenes of a story run.
StoryScores == {20, 55}

\* A scene of known, living characters that changes nobody's status.
PlainScene == [involved |-> {}, deaths |-> <<>>, moves |-> FALSE, text |-> "full"]

\* StoryState.from_analysis: char.status = "alive", char.location = "unknown"
\* for every mapped character.
FromAnalysis ==
    [c \in Characters |-> [status |-> "alive", location |-> NoLocation]]

\* validate_scene, the list errors: one entry per dead character involved,
\* one per unknown name involved, one for a text of fewer than 50 words,
\* and one more for a text that is empty after strip().
ValidationErrors(sc, chars) ==
    { [kind |-> "dead", of |-> n] :
          n \in { m \in sc.involved \cap Characters : chars[m].status = "dead" } }
    \cup { [kind |-> "unknown", of |-> n] : n \in sc.involved \ Characters }
    \cup (IF sc.text # "full" THEN { [kind |-> "short", of |-> ""] } ELSE {})
    \cup (IF sc.text = "empty" THEN { [kind |-> "empty", of |-> ""] } ELSE {})

\* validate_scene, is_valid = len(errors) == 0
ValidateScene(sc, chars) == ValidationErrors(sc, chars) = {}

\* The characters whose name is contained in some entry of deaths.
Died(deaths) == UNION { deaths[k] : k \in 1..Len(deaths) }

\* Mutant of CharactersAfterUpdate: a character involved in the scene and
\* not named in deaths is set back to "alive".
CharactersAfterUpdate_Revive(chars, sc) ==
    [c \in Characters |->
        [status   |-> IF c \in Died(sc.deaths) THEN "dead"
                      ELSE IF c \in sc.involved THEN "alive"
                      ELSE chars[c].status,
         location |-> IF sc.moves /\ c \in sc.involved THEN SceneLocation
                      ELSE chars[c].location]]

\* update_story_state, the characters: update_character_status(name, "dead")
\* for every character named in an entry of deaths, and
\* update_character_location(name, scene.location) for the characters
\* involved when state_updates has "location_changes".
CharactersAfterUpdate(chars, sc) ==
    [c \in Characters |->
        [status   |-> IF c \in Died(sc.deaths) THEN "dead" ELSE chars[c].status,
         location |-> IF sc.moves /\ c \in sc.involved THEN SceneLocation
                      ELSE chars[c].location]]

\* The timeline events f"{char_name} died" and f"{beat_name}: {location}".
DiedEvent(c) == [kind |-> "died", of |-> c]
SceneEvent(idx) == [kind |-> "scene", of |-> ToString(idx)]

\* The events one entry of deaths appends: one per character it names, in
\* the order of state.characters.
RECURSIVE EntryEvents(_, _)
EntryEvents(d, k) ==
    IF k > Len(CharacterOrder) THEN <<>>
    ELSE (IF CharacterOrder[k] \in d THEN <<DiedEvent(CharacterOrder[k])>> ELSE <<>>)
         \o EntryEvents(d, k + 1)

RECURSIVE DeathEvents(_)
DeathEvents(deaths) ==
    IF deaths = <<>> THEN <<>>
    ELSE EntryEvents(Head(deaths), 1) \o DeathEvents(Tail(deaths))

\* update_story_state raises at line 382 in the first entry of deaths, when
\* the loop over state.characters reaches the key that is no str: the k str
\* keys before it have been tested, and those the entry names are dead.
CharactersBeforeRaise(chars, sc, k) ==
    [c \in Characters |->
        IF c \in Head(sc.deaths) /\ (\E j \in 1..k : CharacterOrder[j] = c)
        THEN [chars[c] EXCEPT !.status = "dead"]
        ELSE chars[c]]

\* The events appended for the first k keys by then.
RECURSIVE EventsBeforeRaise(_, _)
EventsBeforeRaise(d, k) ==
    IF k = 0 THEN <<>>
    ELSE EventsBeforeRaise(d, k - 1)
         \o (IF CharacterOrder[k] \in d THEN <<DiedEvent(CharacterOrder[k])>> ELSE <<>>)

\* update_story_state, the timeline: the death events, then the summary of
\* the scene.
TimelineAfterUpdate(tl, sc, idx) == tl \o DeathEvents(sc.deaths) \o <<SceneEvent(idx)>>

(***************************************************************************)
(* src/config.py: SAVE_THE_CAT_BEATS, the "name" of each entry in order.   *)
(***************************************************************************)
SAVE_THE_CAT_BEATS ==
    << "Opening Image", "Theme Stated", "Setup", "Catalyst", "Debate",
       "Break into Two", "B Story", "Fun and Games", "Midpoint",
       "Bad Guys Close In", "All Is Lost", "Dark Night of the Soul",
       "Break into Three", "Finale", "Final Image" >>

(***************************************************************************)
(* PacingController._generate_target_curve: the dict beat_tensions.        *)
(***************************************************************************)
beat_tensions ==
    [ name \in { SAVE_THE_CAT_BEATS[k] : k \in 1..Len(SAVE_THE_CAT_BEATS) } |->
        CASE name = "Opening Image"          -> 30
          [] name = "Theme Stated"           -> 35
          [] name = "Setup"                  -> 40
          [] name = "Catalyst"               -> 70
          [] name = "Debate"                 -> 60
          [] name = "Break into Two"         -> 75
          [] name = "B Story"                -> 50
          [] name = "Fun and Games"          -> 60
          [] name = "Midpoint"               -> 150
          [] name = "Bad Guys Close In"      -> 100
          [] name = "All Is Lost"            -> 130
          [] name = "Dark Night of the Soul" -> 80
          [] name = "Break into Three"       -> 100
          [] name = "Finale"                 -> 180
          [] name = "Final Image"            -> 20 ]

\* The default of beat_tensions.get(beat_name, 0.5) and of the extra beats.
DefaultTension == 50

\* beat_tensions.get(beat_name, 0.5)
BeatTensionGet(name) ==
    IF name \in DOMAIN beat_tensions THEN beat_tensions[name] ELSE DefaultTension

\* Mutant of GenerateTargetCurve: one entry per template beat, whatever n.
GenerateTargetCurve_TemplateLength(n) ==
    [ k \in 1..Len(SAVE_THE_CAT_BEATS) |-> BeatTensionGet(SAVE_THE_CAT_BEATS[k]) ]

\* _generate_target_curve for num_beats = n: entry i of the source list is
\* entry i + 1 of the sequence.
GenerateTargetCurve(n) ==
    [ k \in 1..n |->
        IF k - 1 < Len(SAVE_THE_CAT_BEATS)
        THEN BeatTensionGet(SAVE_THE_CAT_BEATS[k])
        ELSE DefaultTension ]

(***************************************************************************)
(* Python's float: IEEE-754 binary64 with round-to-nearest, ties to even.  *)
(* A float is held exactly, as the record [neg, m, e] that stands for      *)
(* (-1)^neg * m * 2^e; the natural number m is a sequence of limbs of 15   *)
(* bits, the least significant first and the most significant not 0, so    *)
(* that no intermediate value passes 2^31.  Every value the program        *)
(* computes is 0 or lies between 2^-60 and 2^3 in magnitude, where a       *)
(* float has 53 significant bits: m is 0 (with e = 0) or has exactly 53    *)
(* bits.                                                                   *)
(***************************************************************************)
MantissaBits == 53

RECURSIVE BNorm(_)
BNorm(a) == IF a # <<>> /\ a[Len(a)] = 0 THEN BNorm(SubSeq(a, 1, Len(a) - 1)) ELSE a

BLimb(a, i) == IF i <= Len(a) THEN a[i] ELSE 0

RECURSIVE BFromInt(_)
BFromInt(n) == IF n = 0 THEN <<>> ELSE <<n % 32768>> \o BFromInt(n \div 32768)

RECURSIVE BToInt(_)
BToInt(a) == IF a = <<>> THEN 0 ELSE Head(a) + 32768 * BToInt(Tail(a))

RECURSIVE BAddFrom(_, _, _, _)
BAddFrom(a, b, i, carry) ==
    IF i > Len(a) /\ i > Len(b)
    THEN (IF carry = 0 THEN <<>> ELSE <<carry>>)
    ELSE LET s == BLimb(a, i) + BLimb(b, i) + carry
         IN  <<s % 32768>> \o BAddFrom(a, b, i + 1, s \div 32768)

BAdd(a, b) == BAddFrom(a, b, 1, 0)

\* a - b for a >= b.
RECURSIVE BSubFrom(_, _, _, _)
BSubFrom(a, b, i, borrow) ==
    IF i > Len(a) THEN <<>>
    ELSE LET d == a[i] - BLimb(b, i) - borrow
         IN  IF d < 0 THEN <<d + 32768>> \o BSubFrom(a, b, i + 1, 1)
             ELSE <<d>> \o BSubFrom(a, b, i + 1, 0)

BSub(a, b) == BNorm(BSubFrom(a, b, 1, 0))

\* -1, 0 or 1 as a < b, a = b or a > b.
RECURSIVE BCmpFrom(_, _, _)
BCmpFrom(a, b, i) ==
    IF i = 0 THEN 0
    ELSE IF a[i] < b[i] THEN -1
    ELSE IF a[i] > b[i] THEN 1
    ELSE BCmpFrom(a, b, i - 1)

BCmp(a, b) ==
    IF Len(a) < Len(b) THEN -1
    ELSE IF Len(a) > Len(b) THEN 1
    ELSE BCmpFrom(a, b, Len(a))

\* a * k for 0 <= k < 2^15.
RECURSIVE BMulSmallFrom(_, _, _, _)
BMulSmallFrom(a, k, i, carry) ==
    IF i > Len(a) THEN (IF carry = 0 THEN <<>> ELSE <<carry>>)
    ELSE LET p == a[i] * k + carry
         IN  <<p % 32768>> \o BMulSmallFrom(a, k, i + 1, p \div 32768)

BMulSmall(a, k) == BNorm(BMulSmallFrom(a, k, 1, 0))

\* Quotient and remainder of a by k, 0 < k < 2^16.
RECURSIVE BDivModFrom(_, _, _, _)
BDivModFrom(a, k, i, r) ==
    IF i = 0 THEN [q |-> <<>>, r |-> r]
    ELSE LET cur == r * 32768 + a[i]
             rest == BDivModFrom(a, k, i - 1, cur % k)
         IN  [q |-> Append(rest.q, cur \div k), r |-> rest.r]

BDivMod(a, k) ==
    LET dm == BDivModFrom(a, k, Len(a), 0)
    IN  [q |-> BNorm(dm.q), r |-> dm.r]

RECURSIVE Zeros(_)
Zeros(n) == IF n = 0 THEN <<>> ELSE <<0>> \o Zeros(n - 1)

RECURSIVE Pow2Small(_)
Pow2Small(n) == IF n = 0 THEN 1 ELSE 2 * Pow2Small(n - 1)

\* a * 2^n and the integer part of a / 2^n.
BShl(a, n) ==
    IF a = <<>> \/ n = 0 THEN a
    ELSE IF n % 15 = 0 THEN Zeros(n \div 15) \o a
    ELSE Zeros(n \div 15) \o BMulSmall(a, Pow2Small(n % 15))

BShr(a, n) ==
    IF n \div 15 >= Len(a) THEN <<>>
    ELSE BDivMod(SubSeq(a, n \div 15 + 1, Len(a)), Pow2Small(n % 15)).q

RECURSIVE BitsSmall(_)
BitsSmall(n) == IF n = 0 THEN 0 ELSE 1 + BitsSmall(n \div 2)

\* The number of significant bits of a.
BBits(a) == IF a = <<>> THEN 0 ELSE 15 * (Len(a) - 1) + BitsSmall(a[Len(a)])

BOdd(a) == a # <<>> /\ a[1] % 2 = 1

\* Whether the n low bits of a are all 0.
BLowZero(a, n) == BShl(BShr(a, n), n) = a

RECURSIVE BMulFrom(_, _, _)
BMulFrom(a, b, i) ==
    IF i > Len(b) THEN <<>>
    ELSE BAdd(Zeros(i - 1) \o BMulSmall(a, b[i]), BMulFrom(a, b, i + 1))

BMul(a, b) == BNorm(BMulFrom(a, b, 1))

\* The nearest float to (-1)^neg * (m + f) * 2^e, where 0 <= f < 1 and
\* sticky tells that f > 0 (m then has more than MantissaBits + 1 bits): a
\* tie goes to the even mantissa.
FRound(neg, m, e, sticky) ==
    LET k == BBits(m) - MantissaBits
    IN  IF m = <<>> THEN [neg |-> FALSE, m |-> <<>>, e |-> 0]
        ELSE IF k <= 0 THEN [neg |-> neg, m |-> BShl(m, -k), e |-> e + k]
        ELSE LET q == BShr(m, k)
                 guard == BOdd(BShr(m, k - 1))
                 rest == sticky \/ ~BLowZero(m, k - 1)
                 up == guard /\ (rest \/ BOdd(q))
                 r == IF up THEN BAdd(q, <<1>>) ELSE q
             IN  IF BBits(r) > MantissaBits
                 THEN [neg |-> neg, m |-> BShr(r, 1), e |-> e + k + 1]
                 ELSE [neg |-> neg, m |-> r, e |-> e + k]

\* float(n) for an int of fewer than 31 bits.
FInt(n) == FRound(n < 0, BFromInt(IF n < 0 THEN -n ELSE n), 0, FALSE)

\* The mantissas of x and y for their smaller exponent.
FAlign(x, y) ==
    LET e == IF x.e < y.e THEN x.e ELSE y.e
    IN  [e |-> e, x |-> BShl(x.m, x.e - e), y |-> BShl(y.m, y.e - e)]

\* x + y
FAdd(x, y) ==
    LET al == FAlign(x, y)
    IN  IF x.neg = y.neg THEN FRound(x.neg, BAdd(al.x, al.y), al.e, FALSE)
        ELSE IF BCmp(al.x, al.y) >= 0 THEN FRound(x.neg, BSub(al.x, al.y), al.e, FALSE)
        ELSE FRound(y.neg, BSub(al.y, al.x), al.e, FALSE)

\* x - y
FSub(x, y) == FAdd(x, [y EXCEPT !.neg = ~y.neg])

\* x * y
FMul(x, y) == FRound(x.neg # y.neg, BMul(x.m, y.m), x.e + y.e, FALSE)

\* x / d for an int d, 0 < d < 2^16.
FDivInt(x, d) ==
    LET dm == BDivMod(BShl(x.m, 75), d)
    IN  FRound(x.neg, dm.q, x.e - 75, dm.r # 0)

\* The float of the decimal n / d (a literal, the result of round, or the
\* true division of two ints).
FRatio(n, d) == FDivInt(FInt(n), d)

\* |x| < |y| for x and y not 0: the exponents decide, then the mantissas.
FSmaller(x, y) == x.e < y.e \/ (x.e = y.e /\ BCmp(x.m, y.m) < 0)

\* x < y
FLess(x, y) ==
    LET xz == x.m = <<>>
        yz == y.m = <<>>
    IN  IF xz /\ yz THEN FALSE
        ELSE IF xz THEN ~y.neg
        ELSE IF yz THEN x.neg
        ELSE IF x.neg # y.neg THEN x.neg
        ELSE IF x.neg THEN FSmaller(y, x)
        ELSE FSmaller(x, y)

\* round(x, 2) of a float x >= 0, in hundredths: the decimal of two places
\* nearest to the exact value of x, a tie to the even one.
FRoundCents(x) ==
    LET m == BMulSmall(x.m, 100)
    IN  IF x.e >= 0 THEN BToInt(BShl(m, x.e))
        ELSE LET k == -x.e
                 q == BShr(m, k)
                 guard == BOdd(BShr(m, k - 1))
                 rest == ~BLowZero(m, k - 1)
             IN  BToInt(q) + (IF guard /\ (rest \/ BOdd(q)) THEN 1 ELSE 0)

(***************************************************************************)
(* The directives get_adjustment_hint returns.                             *)
(***************************************************************************)
MAINTAIN == "Maintain current pacing."
INJECT_CONFLICT == "INJECT CONFLICT"
PROVIDE_RESPITE == "PROVIDE RESPITE"
ADD_VARIETY == "ADD VARIETY"
HIGH_TENSION == "HIGH TENSION"
RISING_ACTION == "RISING ACTION"
CALM_RESOLUTION == "CALM RESOLUTION"
BALANCED_PACING == "BALANCED PACING"

\* The threshold 0.3 of the two trend tests and 0.1 of the flatness test,
\* in hundredths.
TrendMargin == 30
FlatStd == 10

\* self.tension_history[-3:]
Last3(h) == IF Len(h) >= 3 THEN SubSeq(h, Len(h) - 2, Len(h)) ELSE h

RECURSIVE SumSeq(_)
SumSeq(s) == IF s = <<>> THEN 0 ELSE Head(s) + SumSeq(Tail(s))

SumSquares(s) == SumSeq([k \in 1..Len(s) |-> s[k] * s[k]])

\* Mutant of RecentSum: every entry of a history of fewer than 3 is summed.
RecentSum_All(h, actual) == SumSeq(Last3(h))

\* recent_avg = np.mean(history[-3:]) if len(history) >= 3 else actual_nti,
\* kept as the pair sum / count so that the comparisons stay in integers:
\* recent_avg < x  iff  RecentSum < RecentCount * x.
RecentSum(h, actual) == IF Len(h) >= 3 THEN SumSeq(Last3(h)) ELSE actual
RecentCount(h) == IF Len(h) >= 3 THEN 3 ELSE 1

\* The float of a tension value held in hundredths: a literal of the target
\* table, the literal 0.3, or a result of round(nti, 2).  The tables are
\* tabulated once (@@ yields an explicit function).
FCentsTable == [a \in 0..400 |-> FRatio(a, 100)] @@ <<>>
FCents(a) == IF a \in DOMAIN FCentsTable THEN FCentsTable[a] ELSE FRatio(a, 100)

\* target_nti - 0.3 and target_nti + 0.3 as floats.
FTrendLow == [t \in 0..300 |-> FSub(FCents(t), FCents(TrendMargin))] @@ <<>>
FTrendHigh == [t \in 0..300 |-> FAdd(FCents(t), FCents(TrendMargin))] @@ <<>>

\* recent_avg as a float: np.mean adds the three values from left to right
\* and divides the sum by 3.
FMean3(l) == FDivInt(FAdd(FAdd(FCents(l[1]), FCents(l[2])), FCents(l[3])), 3)
FMean3Table == [l \in [1..3 -> NTIValues] |-> FMean3(l)] @@ <<>>

RecentAvg(h, actual) ==
    IF Len(h) >= 3
    THEN (IF Last3(h) \in DOMAIN FMean3Table THEN FMean3Table[Last3(h)]
          ELSE FMean3(Last3(h)))
    ELSE FCents(actual)

\* Mutants of TooLow: the comparison reversed; only the latest value compared.
TooLow_Reversed(h, actual, target) ==
    RecentSum(h, actual) > RecentCount(h) * (target - TrendMargin)

TooLow_LatestOnly(h, actual, target) ==
    actual < target - TrendMargin

\* recent_avg < target_nti - 0.3, a comparison of floats.  When the decimal
\* values differ they differ by 1/300 or more, far more than the floats are
\* away from them, and the decimals decide; when they are equal the floats
\* decide (0.1 < 0.4 - 0.3 holds: 0.4 - 0.3 is 0.10000000000000003).
TooLow(h, actual, target) ==
    LET sum == RecentSum(h, actual)
        bound == RecentCount(h) * (target - TrendMargin)
    IN  IF sum # bound THEN sum < bound
        ELSE FLess(RecentAvg(h, actual), FTrendLow[target])

\* recent_avg > target_nti + 0.3, in the same way (0.65 > 0.35 + 0.3 holds:
\* 0.35 + 0.3 is 0.6499999999999999).
TooHigh(h, actual, target) ==
    LET sum == RecentSum(h, actual)
        bound == RecentCount(h) * (target + TrendMargin)
    IN  IF sum # bound THEN sum > bound
        ELSE FLess(FTrendHigh[target], RecentAvg(h, actual))

\* Mutant of IsFlat: two entries are enough (population variance of the
\* last k <= 3 values: (k * sumsq - sum^2) / k^2).
IsFlat_TwoEntries(h) ==
    /\ Len(h) >= 2
    /\ Len(Last3(h)) * SumSquares(Last3(h)) - SumSeq(Last3(h)) * SumSeq(Last3(h))
         < Len(Last3(h)) * Len(Last3(h)) * FlatStd * FlatStd

\* len(history) >= 3 and np.std(history[-3:]) < 0.1.  The population variance
\* of three values is (3 * sum of squares - square of sum) / 9, so
\* std < 0.1 iff 3 * sumsq - sum^2 < 9 * 10^2 in hundredths.
IsFlat(h) ==
    /\ Len(h) >= 3
    /\ 3 * SumSquares(Last3(h)) - SumSeq(Last3(h)) * SumSeq(Last3(h))
         < 9 * FlatStd * FlatStd

\* Mutant of DefaultGuidance: the comparisons not strict.
DefaultGuidance_NonStrict(target) ==
    IF target >= 120 THEN HIGH_TENSION
    ELSE IF target >= 70 THEN RISING_ACTION
    ELSE IF target <= 40 THEN CALM_RESOLUTION
    ELSE BALANCED_PACING

\* The default guidance based on beat type (the last if / elif chain).
DefaultGuidance(target) ==
    IF target > 120 THEN HIGH_TENSION
    ELSE IF target > 70 THEN RISING_ACTION
    ELSE IF target < 40 THEN CALM_RESOLUTION
    ELSE BALANCED_PACING

\* Mutants of HistoryAfterHint: the append placed before the range test;
\* the value appended twice; the history trimmed to a window of three.
HistoryAfterHint_AppendFirst(h, curve, pos, actual) ==
    IF actual # None THEN Append(h, actual) ELSE h

HistoryAfterHint_Twice(h, curve, pos, actual) ==
    IF pos >= Len(curve) THEN h
    ELSE IF actual # None THEN Append(Append(h, actual), actual)
    ELSE h

HistoryAfterHint_Window(h, curve, pos, actual) ==
    IF pos >= Len(curve) THEN h
    ELSE IF actual # None THEN Last3(Append(h, actual))
    ELSE h

\* self.tension_history after get_adjustment_hint(pos, actual) on a
\* controller with target curve `curve` and history h.
HistoryAfterHint(h, curve, pos, actual) ==
    IF pos >= Len(curve) THEN h
    ELSE IF actual # None THEN Append(h, actual)
    ELSE h

\* Mutant of AdjustmentHint: the flatness rule tested before the trend rules.
AdjustmentHint_FlatFirst(h, curve, pos, actual) ==
    IF pos >= Len(curve) THEN MAINTAIN
    ELSE
      LET target_nti == curve[pos + 1]
          h2 == IF actual # None THEN Append(h, actual) ELSE h
      IN  IF actual # None /\ IsFlat(h2) THEN ADD_VARIETY
          ELSE IF actual # None /\ TooLow(h2, actual, target_nti) THEN INJECT_CONFLICT
          ELSE IF actual # None /\ TooHigh(h2, actual, target_nti) THEN PROVIDE_RESPITE
          ELSE DefaultGuidance(target_nti)

\* Mutant of AdjustmentHint: no range test before self.target_curve[pos];
\* indexing the list at or past its length raises IndexError.
AdjustmentHint_NoRangeTest(h, curve, pos, actual) ==
    IF pos >= Len(curve) THEN "IndexError"
    ELSE
      LET target_nti == curve[pos + 1]
          h2 == IF actual # None THEN Append(h, actual) ELSE h
      IN  IF actual # None /\ TooLow(h2, actual, target_nti) THEN INJECT_CONFLICT
          ELSE IF actual # None /\ TooHigh(h2, actual, target_nti) THEN PROVIDE_RESPITE
          ELSE IF actual # None /\ IsFlat(h2) THEN ADD_VARIETY
          ELSE DefaultGuidance(target_nti)

\* Mutant of AdjustmentHint: the history rules tested whenever the history
\* holds an entry, with the latest entry standing for a missing actual value.
AdjustmentHint_HistoryAlways(h, curve, pos, actual) ==
    IF pos >= Len(curve) THEN MAINTAIN
    ELSE
      LET target_nti == curve[pos + 1]
          h2 == IF actual # None THEN Append(h, actual) ELSE h
          latest == IF h2 # <<>> THEN h2[Len(h2)] ELSE None
      IN  IF h2 # <<>> /\ TooLow(h2, latest, target_nti) THEN INJECT_CONFLICT
          ELSE IF h2 # <<>> /\ TooHigh(h2, latest, target_nti) THEN PROVIDE_RESPITE
          ELSE IF h2 # <<>> /\ IsFlat(h2) THEN ADD_VARIETY
          ELSE DefaultGuidance(target_nti)

\* The value get_adjustment_hint(pos, actual) returns on a controller with
\* target curve `curve` and history h (the history before the call).
AdjustmentHint(h, curve, pos, actual) ==
    IF pos >= Len(curve) THEN MAINTAIN
    ELSE
      LET target_nti == curve[pos + 1]
          h2 == HistoryAfterHint(h, curve, pos, actual)
      IN  IF actual # None /\ TooLow(h2, actual, target_nti) THEN INJECT_CONFLICT
          ELSE IF actual # None /\ TooHigh(h2, actual, target_nti) THEN PROVIDE_RESPITE
          ELSE IF actual # None /\ IsFlat(h2) THEN ADD_VARIETY
          ELSE DefaultGuidance(target_nti)

\* Whether the call feeds an actual value more than 0.3 below the target of
\* the position it is made for.
FedLow(curve, pos, actual) ==
    /\ pos < Len(curve)
    /\ actual # None
    /\ TooLow(<<actual>>, actual, curve[pos + 1])

\* Mutant of NewController: the history of the controller before is kept.
NewController_KeepHistory(n) ==
    /\ num_beats' = n
    /\ tension_history' = tension_history
    /\ target_curve' = GenerateTargetCurve(n)
    /\ op' = "init"
    /\ beat_index' = 0
    /\ actual_nti' = None
    /\ hint' = ""
    /\ low_streak' = 0

(***************************************************************************)
(* PacingController.__init__(num_beats = n)                                *)
(***************************************************************************)
NewController(n) ==
    /\ num_beats' = n
    /\ tension_history' = <<>>
    /\ target_curve' = GenerateTargetCurve(n)
    /\ op' = "init"
    /\ beat_index' = 0
    /\ actual_nti' = None
    /\ hint' = ""
    /\ low_streak' = 0

\* Mutant of GetAdjustmentHint: the actual value is also written into the
\* target curve at the position of the call.
GetAdjustmentHint_WritesCurve(pos, actual) ==
    /\ hint' = AdjustmentHint(tension_history, target_curve, pos, actual)
    /\ tension_history' = HistoryAfterHint(tension_history, target_curve, pos, actual)
    /\ op' = "hint"
    /\ beat_index' = pos
    /\ actual_nti' = actual
    /\ low_streak' = IF FedLow(target_curve, pos, actual)
                     THEN (IF low_streak < 3 THEN low_streak + 1 ELSE 3)
                     ELSE 0
    /\ target_curve' = IF pos < Len(target_curve) /\ actual # None
                       THEN [target_curve EXCEPT ![pos + 1] = actual]
                       ELSE target_curve
    /\ UNCHANGED num_beats

(***************************************************************************)
(* PacingController.get_adjustment_hint(pos, actual)                       *)
(***************************************************************************)
GetAdjustmentHint(pos, actual) ==
    /\ hint' = AdjustmentHint(tension_history, target_curve, pos, actual)
    /\ tension_history' = HistoryAfterHint(tension_history, target_curve, pos, actual)
    /\ op' = "hint"
    /\ beat_index' = pos
    /\ actual_nti' = actual
    /\ low_streak' = IF FedLow(target_curve, pos, actual)
                     THEN (IF low_streak < 3 THEN low_streak + 1 ELSE 3)
                     ELSE 0
    /\ UNCHANGED <<num_beats, target_curve>>

(***************************************************************************)
(* PacingController.plot_curve(actual_history): builds and returns a dict; *)
(* the controller is only read.                                            *)
(***************************************************************************)
PlotCurve ==
    /\ op' = "plot"
    /\ UNCHANGED <<pacer, beat_index, actual_nti, hint, low_streak>>

(***************************************************************************)
(* Spec: one PacingController, built for any number of beats, and any      *)
(* sequence of calls of its two methods.                                   *)
(***************************************************************************)
Init ==
    /\ num_beats \in 0..MaxBeats
    /\ target_curve = GenerateTargetCurve(num_beats)
    /\ tension_history = <<>>
    /\ op = "init"
    /\ beat_index = 0
    /\ actual_nti = None
    /\ hint = ""
    /\ low_streak = 0
    /\ pc = "idle"
    /\ total_beats = 0
    /\ beat_idx = 0
    /\ run_history = <<>>
    /\ scenes = <<>>
    /\ hint_calls = 0
    /\ earlier_run = FALSE
    /\ lengths = <<>>
    /\ step = 0
    /\ text = <<>>
    /\ sentiment = 0
    /\ nti = 0
    /\ scored = FALSE
    /\ max_retries = 0
    /\ rpc = "idle"
    /\ attempt = 0
    /\ outcomes = <<>>
    /\ delays = <<>>
    /\ last_exception = NoException
    /\ result = NoResult
    /\ runs = [r \in Runs |-> IdleRun]
    /\ pacer_owner = 0
    /\ history_src = <<>>
    /\ replaced = [r \in Runs |-> NoController]
    /\ characters = FromAnalysis
    /\ timeline = <<>>
    /\ current_beat = 0
    /\ is_valid = TRUE
    /\ errors = {}
    /\ bad_key = NoBadKey

CallHint(pos, actual) ==
    /\ Len(HistoryAfterHint(tension_history, target_curve, pos, actual)) <= MaxHistory
    /\ GetAdjustmentHint(pos, actual)
    /\ UNCHANGED <<run, scorer, retry, conc, story>>

CallPlot ==
    /\ PlotCurve
    /\ UNCHANGED <<run, scorer, retry, conc, story>>

Next ==
    \/ \E pos \in 0..(num_beats + 1), actual \in NTIValues \cup {None} :
          CallHint(pos, actual)
    \/ CallPlot

Spec == Init /\ [][Next]_vars

(***************************************************************************)
(* NarrativeTransformer.transform(source_text, source_title, target_genre, *)
(* num_beats = n).  The analysis, the world mapping and the scene text     *)
(* come from the language model; of a scene the loop keeps its             *)
(* tension_score, which is the input of GenerateScene.                     *)
(***************************************************************************)

\* NarrativeTransformer.__init__: self.pacer = None; no run has started.
RunInit ==
    /\ num_beats = 0
    /\ target_curve = <<>>
    /\ tension_history = <<>>
    /\ op = "init"
    /\ beat_index = 0
    /\ actual_nti = None
    /\ hint = ""
    /\ low_streak = 0
    /\ pc = "idle"
    /\ total_beats = 0
    /\ beat_idx = 0
    /\ run_history = <<>>
    /\ scenes = <<>>
    /\ hint_calls = 0
    /\ earlier_run = FALSE
    /\ lengths = <<>>
    /\ step = 0
    /\ text = <<>>
    /\ sentiment = 0
    /\ nti = 0
    /\ scored = FALSE
    /\ max_retries = 0
    /\ rpc = "idle"
    /\ attempt = 0
    /\ outcomes = <<>>
    /\ delays = <<>>
    /\ last_exception = NoException
    /\ result = NoResult
    /\ runs = [r \in Runs |-> IdleRun]
    /\ pacer_owner = 0
    /\ history_src = <<>>
    /\ replaced = [r \in Runs |-> NoController]
    /\ characters = FromAnalysis
    /\ timeline = <<>>
    /\ current_beat = 0
    /\ is_valid = TRUE
    /\ errors = {}
    /\ bad_key = NoBadKey

\* The steps of transform that run before self.pacer is assigned and can
\* raise: step 1, analyzer.analyze (the request raises, or its reply is no
\* JSON), step 2, mapper.create_mapping (target_genre is no key of
\* GENRE_TEMPLATES, the request raises, or its reply is no JSON), and step 3,
\* StoryState.from_analysis at line 62 (get_target_name calls .lower() on a
\* source name that is no str, models.py:133).
StepsBeforePacer == {1, 2, 3}

\* transform(.., num_beats = n) raises in step s: there is no handler, the
\* call ends with the exception before line 63, without a StoryState, and
\* self.pacer is what it was, None or the controller of the call before.
StartTransformFails(n, s) ==
    /\ pc \in {"idle", "done", "raised"}
    /\ pc' = "raised"
    /\ step' = s
    /\ total_beats' = n
    /\ beat_idx' = 0
    /\ run_history' = <<>>
    /\ scenes' = <<>>
    /\ hint_calls' = 0
    /\ earlier_run' = (earlier_run \/ pc # "idle")
    /\ lengths' = <<>>
    /\ UNCHANGED <<pacer, call, scorer, retry, conc, story>>

\* Steps 1 to 3 and the head of step 4: self.pacer = PacingController(n),
\* scenes = [], tension_history = [], and the loop is entered (n > 0) or
\* skipped (n = 0).  b tells whether and where the mapping reply has put a
\* key that is no str into state.characters.
StartTransform(n, b) ==
    /\ pc \in {"idle", "done", "raised"}
    /\ NewController(n)
    /\ bad_key' = b
    /\ total_beats' = n
    /\ beat_idx' = 0
    /\ run_history' = <<>>
    /\ scenes' = <<>>
    /\ hint_calls' = 0
    /\ earlier_run' = (earlier_run \/ pc # "idle")
    /\ lengths' = <<>>
    /\ characters' = FromAnalysis
    /\ timeline' = <<>>
    /\ current_beat' = 0
    /\ pc' = IF n > 0 THEN "hint" ELSE "assemble"
    /\ step' = IF n > 0 THEN 4 ELSE 5
    /\ UNCHANGED <<scorer, retry, conc, is_valid, errors>>

\* The word counts between which _calculate_scene_length stays.
MinLength == 250
MaxLength == 500

Abs(x) == IF x < 0 THEN -x ELSE x

\* Mutant of CalculateSceneLength: the distance from the middle divided by
\* the total instead of the middle.
CalculateSceneLength_ByTotal(idx, total) ==
    (2 * MaxLength * total - (MaxLength - MinLength) * Abs(2 * idx - total))
        \div (2 * total)

\* _calculate_scene_length(beat_idx, total): middle = total / 2,
\* normalized_distance = abs(beat_idx - middle) / middle
\*                     = abs(2 * beat_idx - total) / total, and
\* int(max_length - normalized_distance * (max_length - min_length)), the
\* truncation of a positive value.
CalculateSceneLength(idx, total) ==
    (MaxLength * total - (MaxLength - MinLength) * Abs(2 * idx - total)) \div total

\* Mutant of PrevNti: a run without scores feeds the default tension.
PrevNti_Seeded(h) == IF h # <<>> THEN h[Len(h)] ELSE DefaultTension

\* Mutant of PrevNti: the first score instead of the latest.
PrevNti_First(h) == IF h # <<>> THEN h[1] ELSE None

\* prev_nti = tension_history[-1] if tension_history else None
PrevNti(h) == IF h # <<>> THEN h[Len(h)] ELSE None

\* pacing_hint = self.pacer.get_adjustment_hint(beat_idx, prev_nti)
RequestHint ==
    /\ pc = "hint"
    /\ GetAdjustmentHint(beat_idx, PrevNti(run_history))
    /\ pc' = "generate"
    /\ hint_calls' = hint_calls + 1
    /\ UNCHANGED <<total_beats, beat_idx, run_history, scenes, earlier_run, lengths, step, scorer, retry, conc, story>>

\* Mutant of GenerateScene: a scene that fails validation is dropped and
\* its beat generated again.
GenerateScene_RetryInvalid(tension_score, sc) ==
    /\ pc = "generate"
    /\ bad_key = NoBadKey \/ sc.deaths = <<>>
    /\ is_valid' = ValidateScene(sc, characters)
    /\ errors' = ValidationErrors(sc, characters)
    /\ IF ValidateScene(sc, characters)
       THEN /\ characters' = CharactersAfterUpdate(characters, sc)
            /\ timeline' = TimelineAfterUpdate(timeline, sc, beat_idx)
            /\ current_beat' = beat_idx
            /\ run_history' = Append(run_history, tension_score)
            /\ scenes' = Append(scenes, tension_score)
            /\ lengths' = Append(lengths, CalculateSceneLength(beat_idx, total_beats))
            /\ beat_idx' = beat_idx + 1
            /\ pc' = IF beat_idx + 1 < total_beats THEN "hint" ELSE "assemble"
            /\ step' = IF beat_idx + 1 < total_beats THEN 4 ELSE 5
       ELSE UNCHANGED <<characters, timeline, current_beat, run_history, scenes,
                        lengths, beat_idx, pc, step>>
    /\ UNCHANGED <<pacer, call, total_beats, hint_calls, earlier_run, scorer, retry, conc, bad_key>>

\* One iteration after the hint: generate_scene (with the target length of
\* the beat), validate_scene, whose result is only printed,
\* update_story_state, then tension_history.append(scene.tension_score);
\* scenes.append(scene), and the loop moves to the next beat.  The update
\* returns when every key of state.characters is a str or the scene has no
\* deaths (line 382 is then not reached).
GenerateScene(tension_score, sc) ==
    /\ pc = "generate"
    /\ bad_key = NoBadKey \/ sc.deaths = <<>>
    /\ is_valid' = ValidateScene(sc, characters)
    /\ errors' = ValidationErrors(sc, characters)
    /\ characters' = CharactersAfterUpdate(characters, sc)
    /\ timeline' = TimelineAfterUpdate(timeline, sc, beat_idx)
    /\ current_beat' = beat_idx
    /\ run_history' = Append(run_history, tension_score)
    /\ scenes' = Append(scenes, tension_score)
    /\ lengths' = Append(lengths, CalculateSceneLength(beat_idx, total_beats))
    /\ beat_idx' = beat_idx + 1
    /\ pc' = IF beat_idx + 1 < total_beats THEN "hint" ELSE "assemble"
    /\ step' = IF beat_idx + 1 < total_beats THEN 4 ELSE 5
    /\ UNCHANGED <<pacer, call, total_beats, hint_calls, earlier_run, scorer, retry, conc, bad_key>>

\* The request of generate_scene fails: _call_llm prints the error and
\* raises it again, transform has no handler, and the call of transform
\* ends in the middle of the loop with that exception, before
\* validate_scene and update_story_state.  The target length of the beat
\* was computed and passed with the call (line 103) before the request.
GenerateSceneFails ==
    /\ pc = "generate"
    /\ lengths' = Append(lengths, CalculateSceneLength(beat_idx, total_beats))
    /\ pc' = "raised"
    /\ UNCHANGED <<pacer, call, total_beats, beat_idx, run_history, scenes,
                   hint_calls, earlier_run, step, scorer, retry, conc, story>>

\* The scene has been generated and validated, and update_story_state
\* raises at line 382 (AttributeError: the key has no lower): the call of
\* transform ends there, with the deaths recorded so far in the state, no
\* summary of the scene on the timeline, current_beat as it was, and the
\* scene and its score in neither list; generate_scene was called with
\* the target length of the beat.
UpdateStoryStateFails(sc) ==
    /\ pc = "generate"
    /\ bad_key # NoBadKey
    /\ sc.deaths # <<>>
    /\ is_valid' = ValidateScene(sc, characters)
    /\ errors' = ValidationErrors(sc, characters)
    /\ characters' = CharactersBeforeRaise(characters, sc, bad_key)
    /\ timeline' = timeline \o EventsBeforeRaise(Head(sc.deaths), bad_key)
    /\ lengths' = Append(lengths, CalculateSceneLength(beat_idx, total_beats))
    /\ pc' = "raised"
    /\ UNCHANGED <<pacer, call, total_beats, beat_idx, run_history, scenes,
                   hint_calls, earlier_run, step, scorer, retry, conc,
                   current_beat, bad_key>>

\* Step 5: the metadata; avg_tension divides by len(tension_history), which
\* raises ZeroDivisionError when no beat was generated.
Assemble ==
    /\ pc = "assemble"
    /\ pc' = IF Len(run_history) = 0 THEN "raised" ELSE "done"
    /\ UNCHANGED <<pacer, call, total_beats, beat_idx, run_history, scenes,
                   hint_calls, earlier_run, lengths, step, scorer, retry, conc, story>>

RunNext ==
    \/ \E n \in 0..MaxRunBeats : StartTransform(n, NoBadKey)
    \/ \E n \in 0..MaxRunBeats, s \in StepsBeforePacer : StartTransformFails(n, s)
    \/ RequestHint
    \/ \E s \in NTIValues : GenerateScene(s, PlainScene)
    \/ GenerateSceneFails
    \/ Assemble

SpecRun == RunInit /\ [][RunNext]_vars

(***************************************************************************)
(* The same run with scenes of every kind: characters that are dead or     *)
(* unknown, deaths, moves and short texts, for up to MaxStoryBeats beats,  *)
(* and with a key of state.characters that is no str.  The scenes of       *)
(* RunNext and TrackNext have no deaths, so that key is never reached      *)
(* there.                                                                  *)
(***************************************************************************)
StoryNext ==
    \/ \E n \in 0..MaxStoryBeats, b \in BadKeys : StartTransform(n, b)
    \/ \E n \in 0..MaxStoryBeats, s \in StepsBeforePacer : StartTransformFails(n, s)
    \/ RequestHint
    \/ \E s \in StoryScores, sc \in SceneOutputs : GenerateScene(s, sc)
    \/ GenerateSceneFails
    \/ \E sc \in SceneOutputs : UpdateStoryStateFails(sc)
    \/ Assemble

SpecStory == RunInit /\ [][StoryNext]_vars

(***************************************************************************)
(* A run of the default 15 positions in which the scorer returns either    *)
(* the target value of the beat just generated or OffTarget.               *)
(***************************************************************************)
TrackScores ==
    IF beat_idx < Len(target_curve)
    THEN {target_curve[beat_idx + 1], OffTarget}
    ELSE {OffTarget}

TrackNext ==
    \/ StartTransform(DefaultNumBeats, NoBadKey)
    \/ \E s \in StepsBeforePacer : StartTransformFails(DefaultNumBeats, s)
    \/ RequestHint
    \/ \E s \in TrackScores : GenerateScene(s, PlainScene)
    \/ GenerateSceneFails
    \/ Assemble

SpecTrack == RunInit /\ [][TrackNext]_vars

(***************************************************************************)
(* TensionAnalyzer.  A text is a sequence of tokens, each standing for a   *)
(* piece of the string: "w" a word that holds no marker, "If" the          *)
(* conditional word "if" capitalised, "suddenly" an incomplete-action      *)
(* marker, "." and "?" the two characters, "..." as three "." tokens,      *)
(* "U+2026" the single ellipsis character, " " a blank.                    *)
(* The sentiment is VADER's compound score of the text, an input here,     *)
(* held as an integer counting ten-thousandths (-0.996 is -9960).          *)
(* For the values of SentimentValues and texts of up to 3 sentences the    *)
(* product (1 - uncertainty) * (1 - sentiment) never lies halfway between  *)
(* two hundredths, so round(nti, 2) of the double is the rounding of the   *)
(* exact product.                                                          *)
(***************************************************************************)
Tokens == {"w", "If", "suddenly", ".", "?", "U+2026", " "}

\* The sentiment 1.0, and the number of sentiment units in one hundredth.
SentimentOne == 10000
SentimentPerCent == 100

SentimentValues == {-10000, -9960, -6000, -3200, 0, 3200, 6400, 10000}

Texts == UNION { [1..n -> Tokens] : n \in 0..MaxTextLen }

\* The characters of the class [.!?] of re.split.
IsSep(tok) == tok \in {".", "!", "?"}

\* re.split(r'[.!?]+', text): the pieces between runs of separators.
RECURSIVE SplitFrom(_, _, _, _)
SplitFrom(t, k, acc, inSep) ==
    IF k > Len(t) THEN acc
    ELSE IF IsSep(t[k])
         THEN SplitFrom(t, k + 1, IF inSep THEN acc ELSE Append(acc, <<>>), TRUE)
         ELSE SplitFrom(t, k + 1,
                        [acc EXCEPT ![Len(acc)] = Append(acc[Len(acc)], t[k])], FALSE)

ReSplit(t) == SplitFrom(t, 1, << <<>> >>, FALSE)

\* str.strip()
RECURSIVE LStrip(_)
LStrip(t) == IF t # <<>> /\ Head(t) = " " THEN LStrip(Tail(t)) ELSE t

RECURSIVE RStrip(_)
RStrip(t) ==
    IF t # <<>> /\ t[Len(t)] = " " THEN RStrip(SubSeq(t, 1, Len(t) - 1)) ELSE t

Strip(t) == RStrip(LStrip(t))

\* sentence_count = max(len([s for s in sentences if s.strip()]), 1)
SentenceCount(t) ==
    LET pieces == ReSplit(t)
        n == Cardinality({ k \in 1..Len(pieces) : Strip(pieces[k]) # <<>> })
    IN  IF n > 1 THEN n ELSE 1

\* str.lower() of a token.
Lower(tok) == IF tok = "If" THEN "if" ELSE tok

conditional_words ==
    {"if", "maybe", "perhaps", "could", "might", "possibly", "uncertain",
     "unclear", "wonder"}

incomplete_markers == {"suddenly", "before", "just then", "interrupted"}

\* Mutant of CountToken: at most one occurrence counted per sentence.
CountToken_PerSentence(t, sub) ==
    IF Cardinality({ k \in 1..Len(t) : t[k] = sub }) < SentenceCount(t)
    THEN Cardinality({ k \in 1..Len(t) : t[k] = sub })
    ELSE SentenceCount(t)

\* text.count(sub) for a substring that is one token.
CountToken(t, sub) == Cardinality({ k \in 1..Len(t) : t[k] = sub })

\* sum(text_lower.count(word) for word in words): a token holds a marker
\* word once when it is that word, and none otherwise.
CountWords(t, words) == Cardinality({ k \in 1..Len(t) : Lower(t[k]) \in words })

\* text.strip().endswith(('?', '...', U+2026))
HasCliffhanger(t) ==
    LET s == Strip(t)
        n == Len(s)
    IN  /\ n >= 1
        /\ \/ s[n] = "?"
           \/ s[n] = "U+2026"
           \/ (n >= 3 /\ s[n] = "." /\ s[n-1] = "." /\ s[n-2] = ".")

\* The uncertainty is kept as a fraction of denominator 10 * sentence_count:
\* q/sc * 0.4 + c/sc * 0.3 + i/sc * 0.2 + (0.1 if cliffhanger)
\*   = (4 q + 3 c + 2 i + (sc if cliffhanger)) / (10 sc).
UncertaintyDen(t) == 10 * SentenceCount(t)

UncertaintyRawNum(t) ==
    4 * CountToken(t, "?")
    + 3 * CountWords(t, conditional_words)
    + 2 * CountWords(t, incomplete_markers)
    + (IF HasCliffhanger(t) THEN SentenceCount(t) ELSE 0)

\* return min(1.0, uncertainty)
UncertaintyNum(t) ==
    IF UncertaintyRawNum(t) < UncertaintyDen(t)
    THEN UncertaintyRawNum(t) ELSE UncertaintyDen(t)

\* round(x, 0) of the fraction n / d, d > 0: to the nearest integer, a tie
\* to the even one.
RoundHalfEven(n, d) ==
    LET q == n \div d
        r == n - q * d
    IN  IF 2 * r < d THEN q
        ELSE IF 2 * r > d THEN q + 1
        ELSE IF q % 2 = 0 THEN q ELSE q + 1

\* The uncertainty as the float the code computes from the counts:
\* (q / sc) * 0.4 + (c / sc) * 0.3 + (i / sc) * 0.2 + (0.1 if cliffhanger
\* else 0), added from left to right, then min(1.0, uncertainty).
FUncertaintyOf(q, c, i, cliff, sc) ==
    LET terms == FAdd(FAdd(FMul(FRatio(q, sc), FRatio(4, 10)),
                           FMul(FRatio(c, sc), FRatio(3, 10))),
                      FMul(FRatio(i, sc), FRatio(2, 10)))
        sum == IF cliff THEN FAdd(terms, FRatio(1, 10)) ELSE terms
    IN  IF FLess(sum, FInt(1)) THEN sum ELSE FInt(1)

FUncertainty(t) ==
    FUncertaintyOf(CountToken(t, "?"), CountWords(t, conditional_words),
                   CountWords(t, incomplete_markers), HasCliffhanger(t),
                   SentenceCount(t))

\* round(max(0.0, (1 - uncertainty) * (1 - sentiment)), 2) in floats, for
\* the uncertainty u and the sentiment sent (ten-thousandths), in hundredths.
FloatNti(u, sent) ==
    LET p == FMul(FSub(FInt(1), u), FSub(FInt(1), FRatio(sent, SentimentOne)))
    IN  IF p.neg THEN 0 ELSE FRoundCents(p)

\* Mutant of CalculateNti: the formula of the docstring alone, without the
\* clamps min(1.0, ..) and max(0.0, ..).
CalculateNti_Unclamped(t, sent) ==
    RoundHalfEven((UncertaintyDen(t) - UncertaintyRawNum(t)) * (SentimentOne - sent),
                  UncertaintyDen(t) * SentimentPerCent)

\* Mutant of CalculateNti: the factor (1 - certainty) of the docstring, that
\* is the uncertainty itself, in place of (1 - uncertainty).
CalculateNti_Certainty(t, sent) ==
    LET prod == UncertaintyNum(t) * (SentimentOne - sent)
        clamped == IF prod > 0 THEN prod ELSE 0
    IN  RoundHalfEven(clamped, UncertaintyDen(t) * SentimentPerCent)

\* calculate_nti: nti = (1 - uncertainty) * (1 - sentiment);
\* nti = max(0.0, nti); return round(nti, 2).  In hundredths the product of
\* the decimal values is
\* (den - num) * (SentimentOne - sentiment) / (den * SentimentPerCent).
\* The float product is within 2^-50 of it, so it rounds as the decimal
\* product does unless that lies halfway between two hundredths; then the
\* side on which the float product falls decides (1.925 is held as
\* 1.9250000000000000444 and becomes 1.93).
CalculateNti(t, sent) ==
    LET prod == (UncertaintyDen(t) - UncertaintyNum(t)) * (SentimentOne - sent)
        clamped == IF prod > 0 THEN prod ELSE 0
        d == UncertaintyDen(t) * SentimentPerCent
    IN  IF 2 * (clamped % d) # d THEN RoundHalfEven(clamped, d)
        ELSE FloatNti(FUncertainty(t), sent)

\* A text and the sentiment VADER gives it.
NTIInit ==
    /\ num_beats = 0
    /\ target_curve = <<>>
    /\ tension_history = <<>>
    /\ op = "init"
    /\ beat_index = 0
    /\ actual_nti = None
    /\ hint = ""
    /\ low_streak = 0
    /\ pc = "idle"
    /\ total_beats = 0
    /\ beat_idx = 0
    /\ run_history = <<>>
    /\ scenes = <<>>
    /\ hint_calls = 0
    /\ earlier_run = FALSE
    /\ lengths = <<>>
    /\ step = 0
    /\ text \in Texts
    /\ sentiment \in SentimentValues
    /\ nti = 0
    /\ scored = FALSE
    /\ max_retries = 0
    /\ rpc = "idle"
    /\ attempt = 0
    /\ outcomes = <<>>
    /\ delays = <<>>
    /\ last_exception = NoException
    /\ result = NoResult
    /\ runs = [r \in Runs |-> IdleRun]
    /\ pacer_owner = 0
    /\ history_src = <<>>
    /\ replaced = [r \in Runs |-> NoController]
    /\ characters = FromAnalysis
    /\ timeline = <<>>
    /\ current_beat = 0
    /\ is_valid = TRUE
    /\ errors = {}
    /\ bad_key = NoBadKey

\* TensionAnalyzer.calculate_nti(text)
Score ==
    /\ ~scored
    /\ nti' = CalculateNti(text, sentiment)
    /\ scored' = TRUE
    /\ UNCHANGED <<pacer, call, run, text, sentiment, retry, conc, story>>

NTINext == Score

SpecNTI == NTIInit /\ [][NTINext]_vars

(***************************************************************************)
(* src/llm_client.py: retry_with_backoff(max_retries, base_delay,          *)
(* max_delay), the wrapper it puts around a function such as              *)
(* LLMClient.call.  An invocation of the wrapped function returns a value, *)
(* raises an Exception, or raises a BaseException that is no Exception     *)
(* (which "except Exception" does not catch).                              *)
(***************************************************************************)
Returns == {"text A", "text B"}
Exceptions == {"APIError", "TimeoutError"}
BaseExceptions == {"KeyboardInterrupt"}
Outcomes == Returns \cup Exceptions \cup BaseExceptions

\* The defaults of base_delay and max_delay, which LLMClient.call also passes.
BaseDelay == 2
MaxDelay == 10

RECURSIVE Pow2(_)
Pow2(n) == IF n = 0 THEN 1 ELSE 2 * Pow2(n - 1)

\* Mutant of BackoffDelay: the delay not capped by max_delay.
BackoffDelay_Uncapped(a) == BaseDelay * Pow2(a)

\* delay = min(base_delay * (2 ** attempt), max_delay)
BackoffDelay(a) ==
    IF BaseDelay * Pow2(a) < MaxDelay THEN BaseDelay * Pow2(a) ELSE MaxDelay

\* Mutant of InRange: one more iteration, range(max_retries + 2).
InRange_OneMore(a, m) == a < m + 2

\* for attempt in range(max_retries + 1): whether a is a value of the loop.
InRange(a, m) == a < m + 1

\* if attempt < max_retries: sleep before the next attempt.
SleepsBeforeRetry(a, m) == a < m

\* The decorated function, not called yet.
RetryInit ==
    /\ num_beats = 0
    /\ target_curve = <<>>
    /\ tension_history = <<>>
    /\ op = "init"
    /\ beat_index = 0
    /\ actual_nti = None
    /\ hint = ""
    /\ low_streak = 0
    /\ pc = "idle"
    /\ total_beats = 0
    /\ beat_idx = 0
    /\ run_history = <<>>
    /\ scenes = <<>>
    /\ hint_calls = 0
    /\ earlier_run = FALSE
    /\ lengths = <<>>
    /\ step = 0
    /\ text = <<>>
    /\ sentiment = 0
    /\ nti = 0
    /\ scored = FALSE
    /\ max_retries \in 0..MaxRetries
    /\ rpc = "idle"
    /\ attempt = 0
    /\ outcomes = <<>>
    /\ delays = <<>>
    /\ last_exception = NoException
    /\ result = NoResult
    /\ runs = [r \in Runs |-> IdleRun]
    /\ pacer_owner = 0
    /\ history_src = <<>>
    /\ replaced = [r \in Runs |-> NoController]
    /\ characters = FromAnalysis
    /\ timeline = <<>>
    /\ current_beat = 0
    /\ is_valid = TRUE
    /\ errors = {}
    /\ bad_key = NoBadKey

\* wrapper(*args, **kwargs) is called: last_exception = None and the loop is
\* entered (an empty range would go straight to "raise last_exception").
WrapperCall ==
    /\ rpc \in {"idle", "returned", "raised"}
    /\ last_exception' = NoException
    /\ attempt' = 0
    /\ outcomes' = <<>>
    /\ delays' = <<>>
    /\ IF InRange(0, max_retries)
       THEN rpc' = "try" /\ result' = NoResult
       ELSE rpc' = "raised" /\ result' = "TypeError"
    /\ UNCHANGED <<pacer, call, run, scorer, conc, story, max_retries>>

\* One pass of the try statement: return func(*args, **kwargs), or the
\* except clause up to the sleep; after a last failed attempt the loop ends
\* and last_exception is raised.
Invoke(o) ==
    /\ rpc = "try"
    /\ outcomes' = Append(outcomes, o)
    /\ IF o \in Returns
       THEN /\ rpc' = "returned"
            /\ result' = o
            /\ UNCHANGED <<attempt, last_exception>>
       ELSE IF o \in BaseExceptions
       THEN /\ rpc' = "raised"
            /\ result' = o
            /\ UNCHANGED <<attempt, last_exception>>
       ELSE /\ last_exception' = o
            /\ IF SleepsBeforeRetry(attempt, max_retries)
               THEN rpc' = "sleep" /\ UNCHANGED <<attempt, result>>
               ELSE IF InRange(attempt + 1, max_retries)
               THEN rpc' = "try" /\ attempt' = attempt + 1 /\ UNCHANGED result
               ELSE rpc' = "raised" /\ result' = o /\ UNCHANGED attempt
    /\ UNCHANGED <<pacer, call, run, scorer, conc, story, max_retries, delays>>

\* time.sleep(delay), then the next value of the loop.
Backoff ==
    /\ rpc = "sleep"
    /\ delays' = Append(delays, BackoffDelay(attempt))
    /\ IF InRange(attempt + 1, max_retries)
       THEN rpc' = "try" /\ attempt' = attempt + 1 /\ UNCHANGED result
       ELSE rpc' = "raised" /\ result' = last_exception /\ UNCHANGED attempt
    /\ UNCHANGED <<pacer, call, run, scorer, conc, story, max_retries, outcomes, last_exception>>

RetryNext ==
    \/ WrapperCall
    \/ \E o \in Outcomes : Invoke(o)
    \/ Backoff

SpecRetry == RetryInit /\ [][RetryNext]_vars

(***************************************************************************)
(* Two calls of transform on the same NarrativeTransformer instance, from  *)
(* two threads.  scenes, tension_history and beat_idx are locals of each   *)
(* call; self.pacer is an attribute of the instance: each call assigns it  *)
(* (transformer.py:63) and each iteration reads it again                   *)
(* (self.pacer.get_adjustment_hint, transformer.py:95).  A call switches   *)
(* with the other between its steps (generate_scene waits for the network).*)
(***************************************************************************)
TwoRunsInit ==
    /\ num_beats = 0
    /\ target_curve = <<>>
    /\ tension_history = <<>>
    /\ op = "init"
    /\ beat_index = 0
    /\ actual_nti = None
    /\ hint = ""
    /\ low_streak = 0
    /\ pc = "idle"
    /\ total_beats = 0
    /\ beat_idx = 0
    /\ run_history = <<>>
    /\ scenes = <<>>
    /\ hint_calls = 0
    /\ earlier_run = FALSE
    /\ lengths = <<>>
    /\ step = 0
    /\ text = <<>>
    /\ sentiment = 0
    /\ nti = 0
    /\ scored = FALSE
    /\ max_retries = 0
    /\ rpc = "idle"
    /\ attempt = 0
    /\ outcomes = <<>>
    /\ delays = <<>>
    /\ last_exception = NoException
    /\ result = NoResult
    /\ runs = [r \in Runs |-> IdleRun]
    /\ pacer_owner = 0
    /\ history_src = <<>>
    /\ replaced = [r \in Runs |-> NoController]
    /\ characters = FromAnalysis
    /\ timeline = <<>>
    /\ current_beat = 0
    /\ is_valid = TRUE
    /\ errors = {}
    /\ bad_key = NoBadKey

\* The controller self.pacer names, as an entry of replaced.
NamedController ==
    [num_beats |-> num_beats, target_curve |-> target_curve,
     tension_history |-> tension_history]

\* Call r reaches self.pacer = PacingController(n), then scenes = [],
\* tension_history = [] and the head of the loop.  The controller self.pacer
\* named until then lives on while the call that built it holds it.
TStart(r, n) ==
    /\ runs[r].pc = "idle"
    /\ NewController(n)
    /\ pacer_owner' = r
    /\ history_src' = <<>>
    /\ replaced' = IF pacer_owner # 0
                   THEN [replaced EXCEPT ![pacer_owner] = NamedController]
                   ELSE replaced
    /\ runs' = [runs EXCEPT ![r] = [pc |-> IF n > 0 THEN "hint" ELSE "assemble",
                                    total |-> n, idx |-> 0, hist |-> <<>>, used |-> 0]]
    /\ UNCHANGED <<run, scorer, retry, story>>

\* Call r = transform(.., num_beats = n) raises in step 1 or 2 or in
\* StoryState.from_analysis (line 62), before it assigns self.pacer.
TStartFails(r, n) ==
    /\ runs[r].pc = "idle"
    /\ runs' = [runs EXCEPT ![r] = [pc |-> "raised", total |-> n, idx |-> 0,
                                    hist |-> <<>>, used |-> 0]]
    /\ UNCHANGED <<pacer, call, pacer_owner, history_src, replaced, run, scorer,
                   retry, story>>

\* The controllers the read of self.pacer at line 95 can give call r.  The
\* read and the body of get_adjustment_hint are not one step: the other
\* call can assign self.pacer in between, and the body then runs on the
\* controller read before.  Call r can still hold its own controller while
\* it has not yet used the one that replaced it; the scene before the read
\* touches only locals of the call, so the assignment by the other call can
\* as well have come after it.
ReadablePacers(r) ==
    {pacer_owner} \cup (IF runs[r].used \in {0, r} THEN {r} ELSE {})

\* The controller c: the one self.pacer names, or one it named before.
ControllerRead(c) == IF c = pacer_owner THEN NamedController ELSE replaced[c]

\* Call r enters get_adjustment_hint(beat_idx, prev_nti) on controller c:
\* lines 159 to 166, the range test, the read of the target and the append.
\* A call for a position out of range or without an actual value returns
\* at once; one with a value goes on to read the history again at line
\* 169, and the other call can run in between.
THintOn(r, c) ==
    /\ op' = "hint"
    /\ beat_index' = runs[r].idx
    /\ actual_nti' = PrevNti(runs[r].hist)
    /\ low_streak' = IF FedLow(ControllerRead(c).target_curve, runs[r].idx,
                               PrevNti(runs[r].hist))
                     THEN (IF low_streak < 3 THEN low_streak + 1 ELSE 3)
                     ELSE 0
    /\ hint' = IF runs[r].idx >= Len(ControllerRead(c).target_curve) THEN MAINTAIN
               ELSE IF PrevNti(runs[r].hist) = None
               THEN DefaultGuidance(ControllerRead(c).target_curve[runs[r].idx + 1])
               ELSE hint
    /\ IF c = pacer_owner
       THEN /\ tension_history' = HistoryAfterHint(tension_history, target_curve,
                                                   runs[r].idx, PrevNti(runs[r].hist))
            /\ history_src' =
                  IF Len(HistoryAfterHint(tension_history, target_curve, runs[r].idx,
                                          PrevNti(runs[r].hist))) > Len(tension_history)
                  THEN Append(history_src, r) ELSE history_src
            /\ UNCHANGED replaced
       ELSE /\ replaced' = [replaced EXCEPT ![c].tension_history =
                               HistoryAfterHint(replaced[c].tension_history,
                                                replaced[c].target_curve,
                                                runs[r].idx, PrevNti(runs[r].hist))]
            /\ UNCHANGED <<tension_history, history_src>>
    /\ runs' = [runs EXCEPT
                  ![r].pc = IF runs[r].idx < Len(ControllerRead(c).target_curve)
                               /\ PrevNti(runs[r].hist) # None
                            THEN "trend" ELSE "generate",
                  ![r].used = c]
    /\ UNCHANGED <<num_beats, target_curve, pacer_owner, run, scorer, retry, story>>

\* Call r: pacing_hint = self.pacer.get_adjustment_hint(beat_idx, prev_nti),
\* entered on a controller the read of self.pacer can have given.
THint(r) ==
    /\ runs[r].pc = "hint"
    /\ \E c \in ReadablePacers(r) : THintOn(r, c)

\* Call r, lines 169 to 177 of get_adjustment_hint on the controller it
\* entered: recent_avg is read from the history as it is now, with what the
\* other call has appended to the same controller since line 166, and the
\* two trend rules are tested.
THintTrend(r) ==
    /\ runs[r].pc = "trend"
    /\ IF TooLow(ControllerRead(runs[r].used).tension_history, PrevNti(runs[r].hist),
                 ControllerRead(runs[r].used).target_curve[runs[r].idx + 1])
       THEN hint' = INJECT_CONFLICT /\ runs' = [runs EXCEPT ![r].pc = "generate"]
       ELSE IF TooHigh(ControllerRead(runs[r].used).tension_history, PrevNti(runs[r].hist),
                       ControllerRead(runs[r].used).target_curve[runs[r].idx + 1])
       THEN hint' = PROVIDE_RESPITE /\ runs' = [runs EXCEPT ![r].pc = "generate"]
       ELSE hint' = hint /\ runs' = [runs EXCEPT ![r].pc = "flat"]
    /\ UNCHANGED <<pacer, op, beat_index, actual_nti, low_streak, pacer_owner,
                   history_src, replaced, run, scorer, retry, story>>

\* Call r, line 180 on: the history is read once more for the flatness
\* rule, and the call returns.
THintFlat(r) ==
    /\ runs[r].pc = "flat"
    /\ hint' = IF IsFlat(ControllerRead(runs[r].used).tension_history)
               THEN ADD_VARIETY
               ELSE DefaultGuidance(ControllerRead(runs[r].used).target_curve[runs[r].idx + 1])
    /\ runs' = [runs EXCEPT ![r].pc = "generate"]
    /\ UNCHANGED <<pacer, op, beat_index, actual_nti, low_streak, pacer_owner,
                   history_src, replaced, run, scorer, retry, story>>

\* Call r: the scene is generated and scored, the score appended to the
\* call's own list, and the loop moves on.  The StoryState of a call is a
\* local of that call (transformer.py:62) and is not followed here.
TGenerate(r, tension_score) ==
    /\ runs[r].pc = "generate"
    /\ runs' = [runs EXCEPT
                  ![r].hist = Append(runs[r].hist, tension_score),
                  ![r].idx = runs[r].idx + 1,
                  ![r].pc = IF runs[r].idx + 1 < runs[r].total THEN "hint" ELSE "assemble"]
    /\ UNCHANGED <<pacer, call, pacer_owner, history_src, replaced, run, scorer, retry, story>>

\* Call r: the request of generate_scene fails, or update_story_state
\* raises on the call's own StoryState, and the call raises.
TGenerateFails(r) ==
    /\ runs[r].pc = "generate"
    /\ runs' = [runs EXCEPT ![r].pc = "raised"]
    /\ UNCHANGED <<pacer, call, pacer_owner, history_src, replaced, run, scorer, retry, story>>

\* Call r: step 5, the metadata.
TAssemble(r) ==
    /\ runs[r].pc = "assemble"
    /\ runs' = [runs EXCEPT ![r].pc = IF Len(runs[r].hist) = 0 THEN "raised" ELSE "done"]
    /\ UNCHANGED <<pacer, call, pacer_owner, history_src, replaced, run, scorer, retry, story>>

TwoRunsNext ==
    \/ \E r \in Runs, n \in 0..MaxConcBeats : TStart(r, n)
    \/ \E r \in Runs, n \in 0..MaxConcBeats : TStartFails(r, n)
    \/ \E r \in Runs : THint(r)
    \/ \E r \in Runs : THintTrend(r)
    \/ \E r \in Runs : THintFlat(r)
    \/ \E r \in Runs, s \in NTIValues : TGenerate(r, s)
    \/ \E r \in Runs : TGenerateFails(r)
    \/ \E r \in Runs : TAssemble(r)

SpecTwoRuns == TwoRunsInit /\ [][TwoRunsNext]_vars

(***************************************************************************)
(* Properties.                                                             *)
(***************************************************************************)

\* The last operation was a get_adjustment_hint call for a position of the
\* target curve, with an actual value.
\* The latest call of transform has assigned self.pacer: the controller is
\* the one it built.
PacerBuilt == step >= 4

InRangeFed == op = "hint" /\ beat_index < num_beats /\ actual_nti # None

\* C1: a get_adjustment_hint call with position >= N returns "Maintain
\* current pacing." and leaves tension_history as it was, with or without an
\* actual value.
C1_OutOfRangeFallback ==
    [][ (op' = "hint" /\ beat_index' >= num_beats)
          => (hint' = MAINTAIN /\ tension_history' = tension_history) ]_vars

\* An out-of-range call that supplied an actual value to a controller whose
\* history was not empty.
C1_Witness ==
    /\ op = "hint"
    /\ beat_index >= num_beats
    /\ actual_nti # None
    /\ Len(tension_history) >= 2
    /\ hint = MAINTAIN

\* C2: for an in-range position with an actual value the directive is the
\* first match of: recent < target - 0.3 (INJECT CONFLICT), recent >
\* target + 0.3 (PROVIDE RESPITE), at least 3 entries with standard
\* deviation of the last 3 below 0.1 (ADD VARIETY), the position-only
\* default; recent is the mean of the last 3 entries of the history after
\* the append when it has at least 3, and the value just supplied otherwise.
C2_FirstMatchWins ==
    InRangeFed =>
      LET h == tension_history
          n == Len(h)
          t == target_curve[beat_index + 1]
          low  == IF n >= 3 THEN h[n-2] + h[n-1] + h[n] < 3 * (t - 30)
                            ELSE actual_nti < t - 30
          high == IF n >= 3 THEN h[n-2] + h[n-1] + h[n] > 3 * (t + 30)
                            ELSE actual_nti > t + 30
          \* std < 0.1: the mean of the squared pairwise differences of three
          \* values is three times their variance.
          flat == /\ n >= 3
                  /\ (h[n-2] - h[n-1]) * (h[n-2] - h[n-1])
                     + (h[n-1] - h[n]) * (h[n-1] - h[n])
                     + (h[n-2] - h[n]) * (h[n-2] - h[n]) < 900
      IN  hint = IF low THEN INJECT_CONFLICT
                 ELSE IF high THEN PROVIDE_RESPITE
                 ELSE IF flat THEN ADD_VARIETY
                 ELSE DefaultGuidance(t)

\* A flat history that is also too low: 0.2, 0.2, 0.2 against a higher target.
C2_Witness ==
    /\ InRangeFed
    /\ Len(tension_history) >= 3
    /\ Last3(tension_history) = <<20, 20, 20>>
    /\ target_curve[beat_index + 1] >= 75
    /\ hint = INJECT_CONFLICT

\* Every score of the run so far equals the target value of its beat.
Tracking ==
    \A k \in 1..Len(run_history) :
        k <= Len(target_curve) /\ run_history[k] = target_curve[k]

\* C3 as stated: in a run of the default 15 positions whose scores equal the
\* target curve, no call of the run returns INJECT CONFLICT or PROVIDE RESPITE.
C3_Original ==
    (PacerBuilt /\ Tracking /\ op = "hint") => hint \notin {INJECT_CONFLICT, PROVIDE_RESPITE}

\* C3 as amended: in such a run the calls that return INJECT CONFLICT are
\* those for positions 3, 8 and 13, the calls that return PROVIDE RESPITE
\* those for positions 11 and 14, and no other call returns either.
C3_TrackingDirectives ==
    (PacerBuilt /\ Tracking /\ op = "hint") =>
        /\ (hint = INJECT_CONFLICT) <=> (beat_index \in {3, 8, 13})
        /\ (hint = PROVIDE_RESPITE) <=> (beat_index \in {11, 14})

\* The tracking run of 15 beats, complete.
C3_Witness ==
    /\ Tracking
    /\ pc = "done"
    /\ Len(run_history) = 15
    /\ beat_index = 14
    /\ hint = PROVIDE_RESPITE

\* C4: in every state of a transform run over N beats the tension_history
\* of the controller built for the run has at most N entries.
C4_HistoryAtMostN == PacerBuilt => Len(tension_history) <= total_beats

\* A completed run of at least three beats, every hint of which was fed.
C4_Witness ==
    /\ pc = "done"
    /\ total_beats >= 3
    /\ Len(scenes) = total_beats
    /\ Len(tension_history) >= 2

\* C5 as stated: once k beats have been generated and scored the
\* controller's history has k entries, N when the run ends.
C5_Original ==
    /\ pc \in {"hint", "generate", "assemble", "done"}
          => Len(tension_history) = Len(scenes)
    /\ pc = "done" => Len(tension_history) = total_beats

\* C5 as amended: the controller receives the score of a beat only when the
\* directive of the next beat is requested.  Once k >= 1 beats have been
\* generated and scored its history has k - 1 entries, and k once the
\* directive for beat k has been requested; it is always the scores of the
\* run in order, without the latest until then; it has N - 1 entries when a
\* run of N beats ends.  The list of k scores is transform's own.
C5_HistoryLagsByOne ==
    /\ Len(run_history) = Len(scenes)
    /\ pc = "generate" => Len(tension_history) = Len(scenes)
    /\ (pc \in {"hint", "assemble", "done"} /\ Len(scenes) >= 1)
          => Len(tension_history) = Len(scenes) - 1
    /\ pc = "done" => (Len(scenes) = total_beats /\ Len(tension_history) = total_beats - 1)
    /\ pc \in {"hint", "generate", "assemble", "done"}
          => /\ Len(tension_history) <= Len(run_history)
             /\ tension_history = SubSeq(run_history, 1, Len(tension_history))

\* A completed run of several beats with scores that differ.
C5_Witness ==
    /\ pc = "done"
    /\ total_beats >= 3
    /\ Len(tension_history) = total_beats - 1
    /\ run_history[1] # run_history[2]
    /\ run_history[2] # run_history[3]

\* C6: the history is append-only.  A get_adjustment_hint call for an
\* in-range position with an actual value appends that value and nothing
\* else; every other call of get_adjustment_hint, and plot_curve, leaves the
\* history as it was.
C6_AppendOnly ==
    [][ IF op' = "hint" /\ beat_index' < num_beats /\ actual_nti' # None
        THEN tension_history' = Append(tension_history, actual_nti')
        ELSE tension_history' = tension_history ]_vars

\* A fourth value appended to a history of three.
C6_Witness ==
    /\ InRangeFed
    /\ Len(tension_history) = 4
    /\ tension_history[1] # tension_history[2]
    /\ tension_history[4] = actual_nti

\* C7 as stated: three consecutive calls, each fed an actual value more than
\* 0.3 below the target of its own position, make the third return INJECT
\* CONFLICT.
C7_Original == low_streak = 3 => hint = INJECT_CONFLICT

\* C7 as amended: when the three values fed last are each more than 0.3
\* below the target of the position of the third call, that call returns
\* INJECT CONFLICT.
C7_ThreeLowInject ==
    (/\ InRangeFed
     /\ Len(tension_history) >= 3
     /\ \A k \in 1..3 :
           Last3(tension_history)[k] < target_curve[beat_index + 1] - 30)
    => hint = INJECT_CONFLICT

\* Target 1.0 and actuals 0.2, 0.2, 0.2.
C7_Witness ==
    /\ InRangeFed
    /\ tension_history = <<20, 20, 20>>
    /\ target_curve[beat_index + 1] = 100
    /\ low_streak = 3
    /\ hint = INJECT_CONFLICT

\* C8: three values with standard deviation below 0.1 whose mean is less
\* than 0.3 away from the target of the position make the call that appends
\* the third return ADD VARIETY; a call that leaves fewer than 3 entries in
\* the history never returns ADD VARIETY.
C8_FlatAddsVariety ==
    /\ (/\ InRangeFed
        /\ Len(tension_history) >= 3
        /\ LET l == Last3(tension_history)
               t == target_curve[beat_index + 1]
           IN  /\ l[1] + l[2] + l[3] > 3 * (t - 30)
               /\ l[1] + l[2] + l[3] < 3 * (t + 30)
               /\ (l[1] - l[2]) * (l[1] - l[2]) + (l[2] - l[3]) * (l[2] - l[3])
                  + (l[1] - l[3]) * (l[1] - l[3]) < 900)
       => hint = ADD_VARIETY
    /\ (op = "hint" /\ Len(tension_history) < 3) => hint # ADD_VARIETY

\* The third call of a controller, fed near-identical values that differ.
C8_Witness ==
    /\ InRangeFed
    /\ Len(tension_history) = 3
    /\ tension_history[1] # tension_history[3]
    /\ hint = ADD_VARIETY

\* The 15 named values, in order.
C9_Named == <<30, 35, 40, 70, 60, 75, 50, 60, 150, 100, 130, 80, 100, 180, 20>>

\* C9: the target curve of a controller built for N beats has exactly N
\* entries; entry i is the i-th named value for i < 15 and 0.5 for i >= 15.
C9_TargetCurve ==
    /\ Len(target_curve) = num_beats
    /\ \A i \in 0..(num_beats - 1) :
          target_curve[i + 1] = IF i < 15 THEN C9_Named[i + 1] ELSE 50

\* A controller of 20 beats, positions 15..19 padded.
C9_Witness ==
    /\ num_beats = 20
    /\ Len(target_curve) = 20
    /\ \A i \in 15..19 : target_curve[i + 1] = 50
    /\ target_curve[14] = 180

\* C10: calculate_nti never returns a negative value, whatever the
\* sentiment in [-1, 1] and the uncertainty of the text.
C10_NonNegative == scored => nti >= 0

\* A text whose marker sum exceeds 1 (so that 1 - sum is negative) with the
\* most negative sentiment.
C10_Witness ==
    /\ scored
    /\ UncertaintyRawNum(text) > UncertaintyDen(text)
    /\ sentiment = -10000
    /\ nti = 0

\* The texts without any uncertainty marker (uncertainty 0).
NoMarkerTexts == { t \in Texts : UncertaintyRawNum(t) = 0 }

\* A text with high uncertainty markers: an uncertainty of at least 0.5.
HighUncertainty(t) == 2 * UncertaintyNum(t) >= UncertaintyDen(t)

\* C11: a text with negative sentiment and high uncertainty markers scores
\* strictly higher than every text with positive sentiment and uncertainty 0.
C11_TenseScoresHigher ==
    (scored /\ sentiment < 0 /\ HighUncertainty(text))
      => \A t2 \in NoMarkerTexts :
           \A s2 \in { s \in SentimentValues : s > 0 } :
              nti > CalculateNti(t2, s2)

\* A text that is empty or holds blanks only.
IsBlank(t) == \A k \in 1..Len(t) : t[k] = " "

\* C12: calculate_nti of the empty text and of a text of blanks return, and
\* return the same value: the sentence count of such a text is floored at 1,
\* its uncertainty is 0 and its score is 1 - sentiment, the score of the
\* empty text; the divisor sentence_count is at least 1 for every text.
C12_BlankLikeEmpty ==
    /\ SentenceCount(text) >= 1
    /\ UncertaintyDen(text) >= 10
    /\ (scored /\ IsBlank(text)) =>
          /\ SentenceCount(text) = 1
          /\ UncertaintyNum(text) = 0
          /\ nti = CalculateNti(<<>>, sentiment)
          /\ nti = RoundHalfEven(10000 - sentiment, 100)

\* A text of three blanks, scored 1.0 at sentiment 0 as the empty text is.
C12_Witness ==
    /\ scored
    /\ text = <<" ", " ", " ">>
    /\ sentiment = 0
    /\ nti = 100
    /\ CalculateNti(<<>>, 0) = 100

\* The strings get_adjustment_hint returns.
Directives ==
    {MAINTAIN, INJECT_CONFLICT, PROVIDE_RESPITE, ADD_VARIETY,
     HIGH_TENSION, RISING_ACTION, CALM_RESOLUTION, BALANCED_PACING}

\* C13: get_adjustment_hint returns a directive and never raises, for every
\* position >= 0 on a controller built for any N >= 0, with or without an
\* actual value, after any sequence of earlier calls; on a controller built
\* for N = 0 every call returns the fallback directive.
C13_HintNeverRaises ==
    op = "hint" =>
      /\ hint \in Directives
      /\ num_beats = 0 => (hint = MAINTAIN /\ tension_history = <<>>)

\* A controller built for no beat, asked for position 1 with an actual value.
C13_Witness ==
    /\ num_beats = 0
    /\ target_curve = <<>>
    /\ op = "hint"
    /\ beat_index = 1
    /\ actual_nti # None
    /\ hint = MAINTAIN

\* The call was ended in one of its steps 1 to 4: it raised before the
\* controller was built (analysis, mapping, StoryState.from_analysis) or
\* inside the loop (generate_scene, update_story_state).
RequestFailed == pc = "raised" /\ step < 5

\* The loop of a run of N beats: get_adjustment_hint is called once per
\* position 0..N-1 in increasing order, each call before the scene of its
\* position is generated and scored, and the loop ends after N iterations
\* with N scenes and N scores.
C14_LoopShape ==
    /\ pc = "hint" =>
          /\ beat_idx < total_beats
          /\ hint_calls = beat_idx
          /\ Len(scenes) = beat_idx
          /\ beat_idx >= 1 => (op = "hint" /\ beat_index = beat_idx - 1)
    /\ pc = "generate" =>
          /\ beat_idx < total_beats
          /\ hint_calls = beat_idx + 1
          /\ op = "hint" /\ beat_index = beat_idx
          /\ Len(scenes) = beat_idx
    /\ (pc \in {"assemble", "done"} \/ (pc = "raised" /\ ~RequestFailed)) =>
          /\ beat_idx = total_beats
          /\ hint_calls = total_beats
          /\ Len(scenes) = total_beats
          /\ Len(run_history) = total_beats

\* C14: a transform run with num_beats = N performs exactly N loop
\* iterations, one get_adjustment_hint call per position 0..N-1 in
\* increasing order and before the scene of that position, and ends by
\* returning N scenes and a tension_curve of N values: it raises only when
\* an external call has failed.
C14_RunOfNBeats ==
    /\ C14_LoopShape
    /\ pc = "raised" => RequestFailed

\* C15: each transform call that reaches its loop uses a freshly constructed
\* PacingController.  Before the first get_adjustment_hint call of a run the
\* controller's history is empty, also when an earlier run on the same
\* instance has ended; throughout a run the target curve is the one built
\* for that call's num_beats, and the history holds scores of the current
\* run only (it is a prefix of the run's own list of scores).
C15_FreshController ==
    PacerBuilt =>
      /\ hint_calls = 0 => tension_history = <<>>
      /\ num_beats = total_beats
      /\ target_curve = GenerateTargetCurve(total_beats)
      /\ Len(tension_history) <= Len(run_history)
      /\ tension_history = SubSeq(run_history, 1, Len(tension_history))

\* The loop of a second run is about to start, for 3 beats.
C15_Witness ==
    /\ earlier_run
    /\ pc = "hint"
    /\ total_beats = 3
    /\ beat_idx = 0
    /\ hint_calls = 0
    /\ tension_history = <<>>
    /\ Len(target_curve) = 3

\* C16: per call of the wrapper the wrapped function is invoked at least
\* once and at most max_retries + 1 times; a call that returns returns the
\* value of the first invocation that succeeded, which is the last
\* invocation of the call, and it slept only before that invocation (once
\* per failed invocation).
C16_RetryBounded ==
    /\ Len(outcomes) <= max_retries + 1
    /\ rpc \in {"returned", "raised"} => Len(outcomes) >= 1
    /\ \A k \in 1..(Len(outcomes) - 1) : outcomes[k] \in Exceptions
    /\ Len(delays) <= Len(outcomes)
    /\ rpc = "returned" =>
          /\ outcomes[Len(outcomes)] \in Returns
          /\ result = outcomes[Len(outcomes)]
          /\ Len(delays) = Len(outcomes) - 1

\* A call under max_retries = 3 that failed three times, slept 2, 4 and 8
\* seconds and returned the value of the fourth invocation.
C16_Witness ==
    /\ max_retries = 3
    /\ rpc = "returned"
    /\ Len(outcomes) = 4
    /\ delays = <<2, 4, 8>>
    /\ result = "text B"

\* The last operation was a get_adjustment_hint call for a position of the
\* target curve, without an actual value.
InRangeUnfed == op = "hint" /\ beat_index < num_beats /\ actual_nti = None

\* C17 as stated: a call for an in-range position made with actual absent on
\* a history of at least one entry whose recent average (the mean of the
\* last 3 entries, the latest entry when there are fewer) is below
\* target - 0.3 returns INJECT CONFLICT.
C17_Original ==
    (/\ InRangeUnfed
     /\ Len(tension_history) >= 1
     /\ LET h == tension_history
            n == Len(h)
            t == target_curve[beat_index + 1]
        IN  IF n >= 3 THEN h[n-2] + h[n-1] + h[n] < 3 * (t - 30)
                      ELSE h[n] < t - 30)
    => hint = INJECT_CONFLICT

\* C17 as amended: the history rules are evaluated only in a call that
\* supplies an actual value.  A call for an in-range position made with
\* actual absent returns the position-only default of its target, whatever
\* the history holds, and never INJECT CONFLICT, PROVIDE RESPITE or ADD
\* VARIETY.
C17_UnfedGetsDefault ==
    InRangeUnfed =>
      /\ hint = DefaultGuidance(target_curve[beat_index + 1])
      /\ hint \notin {INJECT_CONFLICT, PROVIDE_RESPITE, ADD_VARIETY}

\* A call without actual at target 1.0 on the history 0.2, 0.2, 0.2, which is
\* both too low and flat.
C17_Witness ==
    /\ InRangeUnfed
    /\ tension_history = <<20, 20, 20>>
    /\ target_curve[beat_index + 1] = 100
    /\ hint = RISING_ACTION

\* C18: in a transform run the get_adjustment_hint call for position i >= 1
\* receives the score of scene i - 1 and appends it before deciding: the
\* directive is the one decided on the scores of scenes 0..i-1 in generation
\* order, which is then the whole history; the call for position 0 receives
\* no value.  The history never holds the score of scene i or of a later
\* scene: it is a prefix of the scores of the scenes generated so far.
C18_ConsultsEarlierScores ==
    /\ pc = "generate" =>
          /\ Len(scenes) = beat_idx
          /\ tension_history = scenes
          /\ actual_nti = (IF beat_idx >= 1 THEN scenes[beat_idx] ELSE None)
          /\ beat_idx >= 1 =>
                hint = AdjustmentHint(SubSeq(scenes, 1, beat_idx - 1), target_curve,
                                      beat_idx, scenes[beat_idx])
    /\ pc \in {"hint", "generate", "assemble", "done"} =>
          /\ Len(tension_history) <= beat_idx
          /\ Len(tension_history) <= Len(scenes)
          /\ tension_history = SubSeq(scenes, 1, Len(tension_history))

\* The directive of position 3 has been decided on the scores 0.2, 0.5, 0.55
\* of scenes 0, 1 and 2.
C18_Witness ==
    /\ pc = "generate"
    /\ beat_idx = 3
    /\ scenes = <<20, 50, 55>>
    /\ tension_history = <<20, 50, 55>>
    /\ actual_nti = 55
    /\ beat_index = 3

\* No history rule matches in the last call: it supplied no actual value, or
\* the history after the append is neither too low, nor too high, nor flat.
NoHistoryRule ==
    \/ actual_nti = None
    \/ LET t == target_curve[beat_index + 1]
       IN  /\ ~TooLow(tension_history, actual_nti, t)
           /\ ~TooHigh(tension_history, actual_nti, t)
           /\ ~IsFlat(tension_history)

\* C19: when no history rule matches, the directive of an in-range position
\* is decided by its target alone, whatever the history: HIGH TENSION above
\* 1.2, else RISING ACTION above 0.7, else CALM RESOLUTION below 0.4, else
\* BALANCED PACING; the comparisons are strict, so a target of exactly 0.7 or
\* 0.4 gives BALANCED PACING and one of exactly 1.2 RISING ACTION.
C19_DefaultByTargetAlone ==
    /\ (op = "hint" /\ beat_index < num_beats /\ NoHistoryRule) =>
          LET t == target_curve[beat_index + 1]
          IN  /\ t > 120 => hint = HIGH_TENSION
              /\ (t <= 120 /\ t > 70) => hint = RISING_ACTION
              /\ t < 40 => hint = CALM_RESOLUTION
              /\ (t >= 40 /\ t <= 70) => hint = BALANCED_PACING
    /\ DefaultGuidance(120) = RISING_ACTION
    /\ DefaultGuidance(70) = BALANCED_PACING
    /\ DefaultGuidance(40) = BALANCED_PACING

\* Position 3, whose target is exactly 0.7, after the values 0.5 and 0.55.
C19_Witness ==
    /\ InRangeFed
    /\ beat_index = 3
    /\ target_curve[4] = 70
    /\ tension_history = <<50, 55>>
    /\ hint = BALANCED_PACING

\* C20 as stated: with exactly 2 history entries the value compared against
\* the target is the mean of both entries.
C20_Original ==
    (InRangeFed /\ Len(tension_history) = 2) =>
      LET h == tension_history
          t == target_curve[beat_index + 1]
      IN  /\ (hint = INJECT_CONFLICT) <=> (h[1] + h[2] < 2 * (t - 30))
          /\ (hint = PROVIDE_RESPITE) <=>
                (h[1] + h[2] >= 2 * (t - 30) /\ h[1] + h[2] > 2 * (t + 30))

\* C20 as amended: the value compared against the target is the mean of the
\* last 3 history entries when the history (after the append) has at least
\* 3, and the value just supplied, which is the latest entry, when it has
\* fewer: with exactly 2 entries the first entry is not consulted.
C20_LatestWhenShort ==
    InRangeFed =>
      LET h == tension_history
          n == Len(h)
          t == target_curve[beat_index + 1]
      IN  /\ n >= 1 /\ h[n] = actual_nti
          /\ n < 3 =>
                /\ (hint = INJECT_CONFLICT) <=> (h[n] < t - 30)
                /\ (hint = PROVIDE_RESPITE) <=> (h[n] > t + 30)
          /\ n >= 3 =>
                /\ (hint = INJECT_CONFLICT) <=> (h[n-2] + h[n-1] + h[n] < 3 * (t - 30))
                /\ (hint = PROVIDE_RESPITE) <=> (h[n-2] + h[n-1] + h[n] > 3 * (t + 30))

\* History 0.5, 0.2 at target 0.6: the mean 0.35 is not below 0.3, the
\* latest value 0.2 is, and the call returns INJECT CONFLICT.
C20_Witness ==
    /\ InRangeFed
    /\ tension_history = <<50, 20>>
    /\ target_curve[beat_index + 1] = 60
    /\ hint = INJECT_CONFLICT

\* Text t2 is at least as uncertain as text t1 (uncertainties compared as
\* fractions).
AtLeastAsUncertain(t2, t1) ==
    UncertaintyNum(t2) * UncertaintyDen(t1) >= UncertaintyNum(t1) * UncertaintyDen(t2)

\* C21: the score is highest for the most uncertain and most negative text.
\* At the sentiment of the scored text no text that is at least as uncertain
\* scores lower; for the scored text no lower sentiment scores lower; and no
\* score exceeds the score of a text of uncertainty 1 at sentiment -1.
C21_UncertainNegativeHighest ==
    scored =>
      /\ \A t2 \in Texts :
            AtLeastAsUncertain(t2, text) => CalculateNti(t2, sentiment) >= nti
      /\ \A s2 \in SentimentValues :
            s2 <= sentiment => CalculateNti(text, s2) >= nti
      /\ \A t2 \in Texts :
            UncertaintyNum(t2) = UncertaintyDen(t2) => nti <= CalculateNti(t2, -10000)

\* The text holds no conditional word and no incomplete-action marker.
OnlyQuestionMarkers(t) ==
    CountWords(t, conditional_words) = 0 /\ CountWords(t, incomplete_markers) = 0

\* C22 as stated: the question-mark density lies in [0, 1], so its term of
\* the uncertainty is at most 0.4.  For a text without other markers the
\* uncertainty is then at most 0.4, 0.5 with a cliffhanger, and the score at
\* least the rounding of 0.6 (0.5) times 1 - sentiment.
C22_Original ==
    scored =>
      /\ CountToken(text, "?") <= SentenceCount(text)
      /\ OnlyQuestionMarkers(text) =>
            nti >= RoundHalfEven((IF HasCliffhanger(text) THEN 5 ELSE 6) * (10000 - sentiment),
                                 1000)

\* C22 as amended: the question-mark density is the number of '?'
\* characters of the text divided by the sentence count; it is not bounded
\* by 1.  For a text without other markers, q question marks and sc
\* sentences the uncertainty is min(1, 0.4 q / sc + (0.1 with a
\* cliffhanger)), and the score follows from it.
C22_DensityCountsCharacters ==
    (scored /\ OnlyQuestionMarkers(text)) =>
      LET q == Cardinality({ k \in 1..Len(text) : text[k] = "?" })
          sc == SentenceCount(text)
          raw == 4 * q + (IF HasCliffhanger(text) THEN sc ELSE 0)
          num == IF raw < 10 * sc THEN raw ELSE 10 * sc
      IN  /\ q >= 0 /\ sc >= 1
          /\ nti = RoundHalfEven((10 * sc - num) * (10000 - sentiment), 1000 * sc)

\* "??w": one sentence, two question marks, no cliffhanger: density 2,
\* uncertainty 0.8, score 0.2 at sentiment 0.
C22_Witness ==
    /\ scored
    /\ text = <<"?", "?", "w">>
    /\ sentiment = 0
    /\ SentenceCount(text) = 1
    /\ nti = 20

\* C23: the target curve is immutable after construction: no
\* get_adjustment_hint call, in range or out of range, with or without an
\* actual value, and no plot_curve call changes its length or an entry.
C23_CurveImmutable ==
    [][ (op' \in {"hint", "plot"}) => (target_curve' = target_curve /\ num_beats' = num_beats) ]_vars

\* A controller of 15 beats after fed calls and a plot_curve call, its curve
\* still the one built at construction.
C23_Witness ==
    /\ op = "plot"
    /\ num_beats = 15
    /\ Len(tension_history) = 4
    /\ target_curve = GenerateTargetCurve(15)
    /\ target_curve[9] = 150

\* C24: when two transform calls on one instance interleave, every directive
\* of a call is computed by the controller that call constructed, and the
\* history of the controller holds only tension values of the call that
\* constructed it.
C24_OwnControllerPerRun ==
    /\ \A r \in Runs : runs[r].used \in {0, r}
    /\ \A k \in 1..Len(history_src) : history_src[k] = pacer_owner

\* C25: when all max_retries + 1 invocations of a call raise an Exception,
\* the wrapper raises the exception of the last invocation, having slept
\* exactly max_retries times, the k-th sleep (k = 0..max_retries - 1)
\* lasting min(base_delay * 2^k, max_delay) with base_delay 2 and max_delay
\* 10; there is no sleep after the last failed attempt.
C25_ExhaustedRaisesLast ==
    (/\ rpc = "raised"
     /\ Len(outcomes) = max_retries + 1
     /\ \A k \in 1..Len(outcomes) : outcomes[k] \in Exceptions)
    => /\ result = outcomes[max_retries + 1]
       /\ Len(delays) = max_retries
       /\ \A k \in 0..(max_retries - 1) :
             delays[k + 1] = (IF k = 0 THEN 2 ELSE IF k = 1 THEN 4
                              ELSE IF k = 2 THEN 8 ELSE 10)

\* Five failed invocations under max_retries = 4, the first and the last
\* with different exceptions; the fourth sleep is capped at 10.
C25_Witness ==
    /\ max_retries = 4
    /\ rpc = "raised"
    /\ Len(outcomes) = 5
    /\ outcomes[1] = "APIError"
    /\ outcomes[5] = "TimeoutError"
    /\ result = "TimeoutError"
    /\ delays = <<2, 4, 8, 10>>

\* C26: the target lengths of a run of total >= 1 beats lie between 250 and
\* 500 words inclusive: 250 for beat 0, 500 for the beat whose index is
\* total / 2, non-decreasing up to the middle and non-increasing after it.
\* There is one length per call of generate_scene: one per scene of the
\* run, and one more when the call ended by raising inside the loop body,
\* where the length was passed and no scene was kept.
C26_SceneLengthBell ==
    /\ Len(lengths) = Len(scenes) + (IF pc = "raised" /\ step = 4 THEN 1 ELSE 0)
    /\ \A k \in 1..Len(lengths) : lengths[k] >= 250 /\ lengths[k] <= 500
    /\ Len(lengths) >= 1 => lengths[1] = 250
    /\ \A k \in 1..Len(lengths) : 2 * (k - 1) = total_beats => lengths[k] = 500
    /\ \A k \in 1..(Len(lengths) - 1) :
          /\ 2 * k <= total_beats => lengths[k] <= lengths[k + 1]
          /\ 2 * (k - 1) >= total_beats => lengths[k] >= lengths[k + 1]

\* The five target lengths of a run of 5 beats.
C26_Witness ==
    /\ pc = "done"
    /\ total_beats = 5
    /\ lengths = <<250, 350, 450, 450, 350>>

\* C27 as stated: calculate_nti never returns more than 2.0; it returns 2.0
\* only at sentiment -1 with uncertainty 0; and it returns a value above 1.0
\* only when the sentiment is negative.
C27_Original ==
    scored =>
      /\ nti <= 200
      /\ nti = 200 => (sentiment = -10000 /\ UncertaintyNum(text) = 0)
      /\ nti > 100 => sentiment < 0

\* C27 as amended: calculate_nti never returns more than 2.0 and returns a
\* value above 1.0 only when the sentiment is negative; because the result
\* is rounded to two decimals, 2.0 is returned not only at sentiment -1 with
\* uncertainty 0 but whenever the product is at least 1.995, which needs a
\* sentiment of at most -0.995 and an uncertainty of at most 0.0025; every
\* text of uncertainty 0 scores 2.0 at a sentiment of -0.996.
C27_AtMostTwo ==
    scored =>
      /\ nti <= 200
      /\ nti > 100 => sentiment < 0
      /\ nti = 200 => (sentiment <= -9950 /\ 400 * UncertaintyNum(text) <= UncertaintyDen(text))
      /\ (UncertaintyNum(text) = 0 /\ sentiment <= -9960) => nti = 200

\* A text without markers at sentiment -0.996: 1.996 is returned as 2.0.
C27_Witness ==
    /\ scored
    /\ text = <<"w">>
    /\ sentiment = -9960
    /\ UncertaintyNum(text) = 0
    /\ nti = 200

\* C28: in every transform run the directive for beat 0 is requested with no
\* actual value: when scene 0 is generated the controller's history is empty
\* and the directive is the position-only default for target_curve[0], which
\* is 0.3 for every N >= 1 and therefore CALM RESOLUTION; a score is fed to
\* the controller only from beat 1 on.
C28_FirstDirectivePositionOnly ==
    /\ (pc = "generate" /\ beat_idx = 0) =>
          /\ total_beats >= 1
          /\ hint_calls = 1
          /\ beat_index = 0
          /\ actual_nti = None
          /\ tension_history = <<>>
          /\ scenes = <<>>
          /\ target_curve[1] = 30
          /\ hint = DefaultGuidance(target_curve[1])
          /\ hint = CALM_RESOLUTION
    /\ (pc = "generate" /\ beat_idx >= 1) =>
          /\ actual_nti = scenes[beat_idx]
          /\ actual_nti # None

\* Scene 0 of a second run on the same instance is about to be generated:
\* the directive is again CALM RESOLUTION and the history is empty.
C28_Witness ==
    /\ earlier_run
    /\ pc = "generate"
    /\ beat_idx = 0
    /\ total_beats = 4
    /\ actual_nti = None
    /\ tension_history = <<>>
    /\ hint = CALM_RESOLUTION

\* The score of the scene generated last.
LastScore == scenes[Len(scenes)]

\* C29: validation never blocks or repeats a beat.  A step that generates a
\* scene for which validate_scene returns is_valid = False still applies the
\* scene to the story state (its deaths are recorded and its summary closes
\* the timeline, current_beat becomes the beat), appends its score to the
\* run's tension history and the scene to the scenes of the final story, and
\* moves to the next beat or, after the last beat, to the assembly, as for a
\* valid scene; the next directive, if there is one, is requested with that
\* score, which the controller appends to its history.
C29_ValidationNeverBlocks ==
    [][ /\ (pc = "generate" /\ pc' # "raised" /\ ~is_valid') =>
            /\ errors' # {}
            /\ Len(scenes') = Len(scenes) + 1
            /\ SubSeq(scenes', 1, Len(scenes)) = scenes
            /\ run_history' = Append(run_history, scenes'[Len(scenes')])
            /\ beat_idx' = beat_idx + 1
            /\ pc' = (IF beat_idx + 1 < total_beats THEN "hint" ELSE "assemble")
            /\ current_beat' = beat_idx
            /\ \E sc \in SceneOutputs :
                  /\ ~ValidateScene(sc, characters)
                  /\ characters' = CharactersAfterUpdate(characters, sc)
                  /\ timeline' = TimelineAfterUpdate(timeline, sc, beat_idx)
        /\ (pc = "hint" /\ ~is_valid /\ beat_idx >= 1) =>
            /\ pc' = "generate"
            /\ actual_nti' = LastScore
            /\ tension_history' = Append(tension_history, LastScore)
            /\ UNCHANGED <<scenes, run_history, beat_idx, characters, timeline>>
        /\ (pc = "assemble" /\ ~is_valid /\ total_beats >= 1) =>
            /\ pc' = "done"
            /\ Len(scenes') = total_beats
            /\ UNCHANGED <<scenes, run_history, characters, timeline>>
      ]_vars

\* Scene 0 named an unknown character and so failed validation; its death
\* of "a" is in the story state, its score 0.55 is in the run's history and
\* has been fed to the controller with the request for beat 1.
C29_Witness ==
    /\ pc = "generate"
    /\ beat_idx = 1
    /\ ~is_valid
    /\ errors = { [kind |-> "unknown", of |-> UnknownName] }
    /\ characters["a"].status = "dead"
    /\ timeline = <<DiedEvent("a"), SceneEvent(0)>>
    /\ current_beat = 0
    /\ scenes = <<55>>
    /\ run_history = <<55>>
    /\ actual_nti = 55
    /\ tension_history = <<55>>

\* The timeline tl continues the timeline old.
Extends(tl, old) == Len(tl) >= Len(old) /\ SubSeq(tl, 1, Len(old)) = old

\* C30: during a transform run character status is monotonic.  Every
\* character starts "alive" with an empty timeline and current_beat 0; a
\* step of the run changes a status only to "dead" and never changes the
\* status of a dead character; the timeline only grows, by at least one
\* event per scene, the last one the summary of the scene; and once a beat
\* has been processed current_beat is the index of the beat processed last.
\* A state update that raises part-way has only recorded deaths: the events
\* it appended are "<name> died" of characters now dead, and current_beat
\* is still the index of the beat processed before.
C30_StatusMonotonic ==
    [][ /\ pc' = "hint" /\ beat_idx' = 0 =>
            /\ \A c \in Characters : characters'[c].status = "alive"
            /\ timeline' = <<>>
            /\ current_beat' = 0
        /\ pc \in {"hint", "generate", "assemble"} =>
            /\ \A c \in Characters :
                  /\ characters'[c].status \in {"alive", "dead"}
                  /\ characters[c].status = "dead" => characters'[c].status = "dead"
                  /\ characters'[c].status # characters[c].status
                        => (pc = "generate" /\ characters'[c].status = "dead"
                            /\ DiedEvent(c) \in { timeline'[k] : k \in (Len(timeline) + 1)..Len(timeline') })
            /\ Extends(timeline', timeline)
            /\ (pc = "generate" /\ pc' # "raised") =>
                  /\ Len(timeline') >= Len(timeline) + 1
                  /\ timeline'[Len(timeline')] = SceneEvent(beat_idx)
                  /\ current_beat' = beat_idx
            /\ pc # "generate" =>
                  (timeline' = timeline /\ current_beat' = current_beat)
            /\ (pc = "generate" /\ pc' = "raised") =>
                  /\ current_beat' = current_beat
                  /\ \A k \in (Len(timeline) + 1)..Len(timeline') :
                        /\ timeline'[k].kind = "died"
                        /\ characters'[timeline'[k].of].status = "dead"
            /\ beat_idx' >= 1 => current_beat' = beat_idx' - 1
      ]_vars

\* "a" died in scene 0 and took part, moved, in scene 1, in which "b" died:
\* "a" is still dead after both state updates.
C30_Witness ==
    /\ pc = "done"
    /\ total_beats = 2
    /\ characters["a"] = [status |-> "dead", location |-> SceneLocation]
    /\ characters["b"].status = "dead"
    /\ timeline = <<DiedEvent("a"), SceneEvent(0), DiedEvent("b"), SceneEvent(1)>>
    /\ current_beat = 1
    /\ errors = { [kind |-> "dead", of |-> "a"] }

====
